---- MODULE Spec2Model ----
(***************************************************************************)
(* Topple scorer: the game-state reducer (gameState.ts), the round          *)
(* lifecycle (round.ts), the board (board.ts) and the scoring engine        *)
(* (scoring.ts), as a state machine over the game snapshot.                 *)
(*                                                                          *)
(* Conventions.  Rows, columns and currentPlayerIndex are 0-based as in the *)
(* code; the players list and the log are TLA+ sequences (1-based), so the  *)
(* player at index i is players[i + 1].  An absent optional field           *)
(* (color2, diceRoll, topplePlayerId, points, playerId, position, the       *)
(* per-colour maps) is NoColor, 0, "", 0, "", <<>> and Undefined.           *)
(* Ids of games, pieces and log entries (uuidv4) and wall-clock fields are  *)
(* not part of the model.                                                   *)
(***************************************************************************)
EXTENDS Integers, Sequences, FiniteSets, TLC

\* ------------------------------------------------------------------------
\* Types (types/player.ts, types/game.ts)
\* ------------------------------------------------------------------------
PlayerColor == {"pink", "yellow", "orange", "purple"}

NoColor == "none"

Undefined == <<>>

NoGame == [status |-> "null"]

TotalPieces == 12

Idx == 0 .. 4

AllPositions == {<<r, c>> : r \in Idx, c \in Idx}

\* ------------------------------------------------------------------------
\* Sequence helpers (Array.prototype.reduce / filter / map)
\* ------------------------------------------------------------------------
RECURSIVE SumSeq(_)
SumSeq(s) == IF s = <<>> THEN 0 ELSE Head(s) + SumSeq(Tail(s))

RECURSIVE SumFn(_, _)
SumFn(f, D) ==
    IF D = {} THEN 0
    ELSE LET d == CHOOSE e \in D : TRUE IN f[d] + SumFn(f, D \ {d})

\* Object.values(map).reduce((sum, v) => sum + v, 0)
SumValues(map) == SumFn(map, DOMAIN map)

MapSeq(s, F(_)) == [i \in 1 .. Len(s) |-> F(s[i])]

CountSeq(s, P(_)) == Len(SelectSeq(s, P))

\* Array.prototype.findIndex, 0-based, -1 when absent
FindIndex(s, P(_)) ==
    IF \E i \in 1 .. Len(s) : P(s[i])
    THEN (CHOOSE i \in 1 .. Len(s) : P(s[i]) /\ \A j \in 1 .. (i - 1) : ~P(s[j])) - 1
    ELSE -1

\* ------------------------------------------------------------------------
\* Board (board.ts)
\* ------------------------------------------------------------------------
LEVEL_LAYOUT ==
    << <<5, 4, 3, 4, 5>>,
       <<4, 3, 2, 3, 4>>,
       <<3, 2, 1, 2, 3>>,
       <<4, 3, 2, 3, 4>>,
       <<5, 4, 3, 4, 5>> >>

getLevelLayout == LEVEL_LAYOUT

createEmptyBoard ==
    [cells |-> [row \in Idx |-> [col \in Idx |->
                    [row |-> row, col |-> col,
                     level |-> LEVEL_LAYOUT[row + 1][col + 1],
                     stack |-> <<>>]]],
     levelLayout |-> getLevelLayout]

\* Variant of getValidCells in which dice 2 to 5 admit every cell up to the
\* rolled level.
getValidCells_UpToLevel(diceRoll, board) ==
    IF diceRoll = 1 THEN {<<2, 2>>}
    ELSE IF diceRoll >= 2 /\ diceRoll <= 5
         THEN {p \in AllPositions : board.cells[p[1]][p[2]].level <= diceRoll}
    ELSE IF diceRoll = 6 THEN AllPositions
    ELSE {}

\* The set of positions the die admits (the code returns them as a list).
getValidCells(diceRoll, board) ==
    IF diceRoll = 1 THEN {<<2, 2>>}
    ELSE IF diceRoll >= 2 /\ diceRoll <= 5
         THEN {p \in AllPositions : board.cells[p[1]][p[2]].level = diceRoll}
    ELSE IF diceRoll = 6 THEN AllPositions
    ELSE {}

canPlacePiece(position, diceRoll, board) ==
    IF position[1] < 0 \/ position[1] >= 5 \/ position[2] < 0 \/ position[2] >= 5
    THEN FALSE
    ELSE position \in getValidCells(diceRoll, board)

\* Variant of placePiece that slides the piece under the stack.
placePiece_Underneath(board, position, piece) ==
    [board EXCEPT !.cells[position[1]][position[2]].stack = <<piece>> \o @]

placePiece(board, position, piece) ==
    [board EXCEPT !.cells[position[1]][position[2]].stack = Append(@, piece)]

StackAt(board, pos) == board.cells[pos[1]][pos[2]].stack

\* ------------------------------------------------------------------------
\* Scoring (scoring.ts)
\* ------------------------------------------------------------------------
\* The 12 candidate lines in the order getAllCompletedRows visits them.
\* Variant of HorizontalLine that walks down a column.
HorizontalLine_Transposed(row) ==
    [positions |-> [i \in 1 .. 5 |-> <<i - 1, row>>],
     direction |-> "horizontal",
     identifier |-> <<"horizontal", row>>]

HorizontalLine(row) ==
    [positions |-> [i \in 1 .. 5 |-> <<row, i - 1>>],
     direction |-> "horizontal",
     identifier |-> <<"horizontal", row>>]

VerticalLine(col) ==
    [positions |-> [i \in 1 .. 5 |-> <<i - 1, col>>],
     direction |-> "vertical",
     identifier |-> <<"vertical", col>>]

Diagonal1 ==
    [positions |-> [i \in 1 .. 5 |-> <<i - 1, i - 1>>],
     direction |-> "diagonal",
     identifier |-> <<"diagonal", 1>>]

Diagonal2 ==
    [positions |-> [i \in 1 .. 5 |-> <<i - 1, 4 - (i - 1)>>],
     direction |-> "diagonal",
     identifier |-> <<"diagonal", 2>>]

CandidateLines ==
    [i \in 1 .. 5 |-> HorizontalLine(i - 1)] \o [i \in 1 .. 5 |-> VerticalLine(i - 1)]
        \o <<Diagonal1, Diagonal2>>

getRowLabel(rowIndex) == <<"A", "B", "C", "D", "E">>[rowIndex + 1]

\* Variant of getColumnLabel that numbers the columns from 0.
getColumnLabel_ZeroBased(colIndex) == <<"0", "1", "2", "3", "4">>[colIndex + 1]

getColumnLabel(colIndex) == <<"1", "2", "3", "4", "5">>[colIndex + 1]

getDiagonalLabel(identifier) ==
    IF identifier = <<"diagonal", 1>> THEN <<"diagonal", "top-left to bottom-right">>
    ELSE IF identifier = <<"diagonal", 2>> THEN <<"diagonal", "top-right to bottom-left">>
    ELSE <<"diagonal", "">>

\* A label is the pair <<kind, name>>, e.g. <<"row", "A">> for "row A".
getRowLabelForCompletedRow(completedRow) ==
    IF completedRow.direction = "horizontal"
    THEN <<"row", getRowLabel(completedRow.positions[1][1])>>
    ELSE IF completedRow.direction = "vertical"
         THEN <<"column", getColumnLabel(completedRow.positions[1][2])>>
    ELSE getDiagonalLabel(completedRow.identifier)

LineIsComplete(board, line) ==
    \A i \in 1 .. 5 : Len(StackAt(board, line.positions[i])) > 0

getAllCompletedRows(board) ==
    SelectSeq(CandidateLines, LAMBDA line : LineIsComplete(board, line))

\* The top piece of each cell of a line, Undefined for an empty cell.
getTopPieceColors(board, positions) ==
    [i \in 1 .. Len(positions) |->
        LET stack == StackAt(board, positions[i]) IN
        IF Len(stack) > 0 THEN stack[Len(stack)] ELSE Undefined]

\* Variant of getRowsContainingPosition that keeps every completed row.
getRowsContainingPosition_All(position, completedRows) == completedRows

getRowsContainingPosition(position, completedRows) ==
    SelectSeq(completedRows,
              LAMBDA row : \E i \in 1 .. Len(row.positions) : row.positions[i] = position)

\* Variant of playerTopPieces that matches the owner only, not the colour.
playerTopPieces_AnyColor(board, completedRow, player, colorToMatch) ==
    CountSeq(getTopPieceColors(board, completedRow.positions),
             LAMBDA piece : piece # Undefined /\ piece.playerId = player.id)

\* piece && piece.playerId === player.id && piece.color === colorToMatch
playerTopPieces(board, completedRow, player, colorToMatch) ==
    CountSeq(getTopPieceColors(board, completedRow.positions),
             LAMBDA piece : piece # Undefined /\ piece.playerId = player.id
                            /\ piece.color = colorToMatch)

\* Variant of playerPieces that counts the owner's pieces of any colour.
playerPieces_AnyColor(cell, player, colorToMatch) ==
    CountSeq(cell.stack, LAMBDA p : p.playerId = player.id)

\* cell.stack.filter((p) => p.playerId === player.id && p.color === colorToMatch).length
playerPieces(cell, player, colorToMatch) ==
    CountSeq(cell.stack, LAMBDA p : p.playerId = player.id /\ p.color = colorToMatch)

\* Variant of isTallStack that already fires on an occupied cell.
isTallStack_Occupied(previousStackLength) == previousStackLength >= 1

\* previousStackLength >= 3
isTallStack(previousStackLength) == previousStackLength >= 3

calculateScore(board, position, player, previousBoard, selectedColor) ==
    LET cell == board.cells[position[1]][position[2]]
        currentCompletedRows == getAllCompletedRows(board)
        previousCompletedRows == getAllCompletedRows(previousBoard)
        previousRowIdentifiers ==
            {previousCompletedRows[i].identifier : i \in 1 .. Len(previousCompletedRows)}
        newlyCompletedRows ==
            SelectSeq(currentCompletedRows,
                      LAMBDA row : row.identifier \notin previousRowIdentifiers)
        colorToMatch == IF selectedColor # NoColor THEN selectedColor ELSE player.color
        rowPoints(row) == 3 + playerTopPieces(board, row, player, colorToMatch)
        rowCompletionEvents ==
            IF Len(newlyCompletedRows) > 0
            THEN << [playerId |-> player.id,
                     points |-> SumSeq(MapSeq(newlyCompletedRows, rowPoints)),
                     reason |-> "row_completion",
                     roundNumber |-> 0,
                     details |-> MapSeq(newlyCompletedRows, getRowLabelForCompletedRow)] >>
            ELSE <<>>
        newlyCompletedIdentifiers ==
            {newlyCompletedRows[i].identifier : i \in 1 .. Len(newlyCompletedRows)}
        rowsContainingPosition == getRowsContainingPosition(position, previousCompletedRows)
        isStillComplete(row) ==
            \E i \in 1 .. Len(currentCompletedRows) :
                currentCompletedRows[i].identifier = row.identifier
        bonusRows ==
            SelectSeq(rowsContainingPosition,
                      LAMBDA row : /\ row.identifier \notin newlyCompletedIdentifiers
                                   /\ isStillComplete(row)
                                   /\ playerTopPieces(board, row, player, colorToMatch) > 0)
        bonusEvent(row) ==
            [playerId |-> player.id,
             points |-> playerTopPieces(board, row, player, colorToMatch),
             reason |-> "completed_row_bonus",
             roundNumber |-> 0,
             details |-> <<getRowLabelForCompletedRow(row)>>]
        previousStackLength == Len(StackAt(previousBoard, position))
        tallStackEvents ==
            IF isTallStack(previousStackLength)
               /\ playerPieces(cell, player, colorToMatch) > 0
            THEN << [playerId |-> player.id,
                     points |-> playerPieces(cell, player, colorToMatch),
                     reason |-> "tall_stack",
                     roundNumber |-> 0,
                     details |-> <<>>] >>
            ELSE <<>>
    IN rowCompletionEvents \o MapSeq(bonusRows, bonusEvent) \o tallStackEvents

\* ------------------------------------------------------------------------
\* Configuration validation (validation.ts)
\* ------------------------------------------------------------------------
\* A name is a sequence of characters; a number is a fraction num / den
\* with den > 0.
Whitespace == {" "}

RECURSIVE TrimStart(_)
TrimStart(name) ==
    IF name # <<>> /\ Head(name) \in Whitespace THEN TrimStart(Tail(name)) ELSE name

RECURSIVE TrimEnd(_)
TrimEnd(name) ==
    IF name # <<>> /\ name[Len(name)] \in Whitespace
    THEN TrimEnd(SubSeq(name, 1, Len(name) - 1))
    ELSE name

\* String.prototype.trim
Trim(name) == TrimEnd(TrimStart(name))

\* Number.isInteger
IsInteger(x) == x.num % x.den = 0

ValidationError(kind, index) == [kind |-> kind, player |-> index + 1]

\* Variant of validatePlayerConfig that accepts every order up to 4.
validatePlayerConfig_OrderUpTo4(player, index, isTwoPlayerMode) ==
    (IF player.name = <<>> \/ Len(Trim(player.name)) = 0
     THEN << ValidationError("name_required", index) >> ELSE <<>>)
    \o (IF player.color \notin PlayerColor
        THEN << ValidationError("invalid_color", index) >> ELSE <<>>)
    \o (IF isTwoPlayerMode /\ player.color2 # NoColor
        THEN (IF player.color2 \notin PlayerColor
              THEN << ValidationError("invalid_second_color", index) >> ELSE <<>>)
             \o (IF player.color = player.color2
                 THEN << ValidationError("same_colors", index) >> ELSE <<>>)
        ELSE <<>>)
    \o (IF player.order < 0 \/ player.order > 4
        THEN << ValidationError("order_range", index) >> ELSE <<>>)

validatePlayerConfig(player, index, isTwoPlayerMode) ==
    (IF player.name = <<>> \/ Len(Trim(player.name)) = 0
     THEN << ValidationError("name_required", index) >> ELSE <<>>)
    \o (IF player.color \notin PlayerColor
        THEN << ValidationError("invalid_color", index) >> ELSE <<>>)
    \o (IF isTwoPlayerMode /\ player.color2 # NoColor
        THEN (IF player.color2 \notin PlayerColor
              THEN << ValidationError("invalid_second_color", index) >> ELSE <<>>)
             \o (IF player.color = player.color2
                 THEN << ValidationError("same_colors", index) >> ELSE <<>>)
        ELSE <<>>)
    \o (IF player.order < 0 \/ player.order >= 4
        THEN << ValidationError("order_range", index) >> ELSE <<>>)

\* The loop of validateGameConfig from 0-based index i on, with the colours
\* and orders seen so far.
RECURSIVE ValidatePlayersFrom(_, _, _, _)
ValidatePlayersFrom(config, i, usedColors, usedOrders) ==
    IF i >= Len(config.players) THEN <<>>
    ELSE LET player == config.players[i + 1]
             twoPlayers == config.playerCount = 2
             secondColor == twoPlayers /\ player.color2 # NoColor
             colorErrors ==
                 (IF player.color \in usedColors
                  THEN << ValidationError("color_used", i) >> ELSE <<>>)
                 \o (IF secondColor /\ player.color2 \in usedColors \cup {player.color}
                     THEN << ValidationError("color_used", i) >> ELSE <<>>)
             orderErrors ==
                 IF player.order \in usedOrders
                 THEN << ValidationError("order_used", i) >> ELSE <<>>
         IN validatePlayerConfig(player, i, twoPlayers)
                \o colorErrors \o orderErrors
                \o ValidatePlayersFrom(
                       config, i + 1,
                       usedColors \cup {player.color}
                           \cup (IF secondColor THEN {player.color2} ELSE {}),
                       usedOrders \cup {player.order})

validateGameConfig(config) ==
    LET errors ==
            (IF config.playerCount < 2 \/ config.playerCount > 4
             THEN << ValidationError("player_count", -1) >> ELSE <<>>)
            \o (IF Len(config.players) # config.playerCount
                THEN << ValidationError("players_length", -1) >> ELSE <<>>)
            \o (IF config.victoryPoints.num <= 0 \/ ~IsInteger(config.victoryPoints)
                THEN << ValidationError("victory_points", -1) >> ELSE <<>>)
            \o ValidatePlayersFrom(config, 0, {}, {})
    IN [valid |-> Len(errors) = 0, errors |-> errors]

\* ------------------------------------------------------------------------
\* Snapshot construction (gameState.ts)
\* ------------------------------------------------------------------------
\* What one dispatch reads from its surroundings: the clock when the handler
\* starts (now), how far the clock has moved on when the handler reads it
\* again later (lag >= 0), and the seed of the identifiers Math.random
\* yields during the dispatch (nonce).
Env(now, lag, nonce) == [now |-> now, lag |-> lag, nonce |-> nonce]

Epoch == Env(0, 0, 0)

\* The readings that come with an action; a dispatch written without them
\* happens at the epoch.
EnvOf(action) == IF "env" \in DOMAIN action THEN action.env ELSE Epoch

\* The action with the readings of its dispatch attached.
At(action, env) ==
    [field \in DOMAIN action \cup {"env"} |->
        IF field = "env" THEN env ELSE action[field]]

\* A later read of the clock within the same dispatch
Later(env) == env.now + env.lag

\* The serial-th identifier uuidv4 yields during the dispatch
uuidv4(env, serial) == <<env.nonce, serial>>

LogEntry(type, playerId, points, position, roundNumber, id, timestamp) ==
    [id |-> id, type |-> type, playerId |-> playerId, points |-> points,
     position |-> position, timestamp |-> timestamp, roundNumber |-> roundNumber]

PlayerIds == <<"player-1", "player-2", "player-3", "player-4">>

\* 12 for each colour the player holds, 0 for the others
PiecesByColor(color, color2) ==
    [c \in PlayerColor |-> IF color = c \/ color2 = c THEN TotalPieces ELSE 0]

createPlayer(id, name, color, color2, order) ==
    LET isTwoPlayerMode == color2 # NoColor IN
    [id |-> id,
     name |-> name,
     color |-> color,
     color2 |-> color2,
     score |-> 0,
     scoreByColor |-> IF isTwoPlayerMode THEN [c \in PlayerColor |-> 0] ELSE Undefined,
     piecesRemaining |-> TotalPieces,
     piecesRemainingByColor |->
         IF isTwoPlayerMode THEN PiecesByColor(color, color2) ELSE Undefined,
     totalPieces |-> TotalPieces,
     order |-> order,
     isActive |-> FALSE]

createPiece(playerId, color, roundNumber, env) ==
    [id |-> uuidv4(env, 0), playerId |-> playerId, color |-> color,
     placedAt |-> env.now, roundNumber |-> roundNumber]

initializeGame(config, env) ==
    [id |-> uuidv4(env, 0),
     status |-> "playing",
     players |-> [i \in 1 .. Len(config.players) |->
                     createPlayer(PlayerIds[i], config.players[i].name,
                                  config.players[i].color, config.players[i].color2,
                                  config.players[i].order)],
     currentPlayerIndex |-> 0,
     roundNumber |-> 1,
     victoryPoints |-> config.victoryPoints,
     board |-> createEmptyBoard,
     diceRoll |-> 0,
     toppleOccurred |-> FALSE,
     topplePlayerId |-> "",
     diceRolledInRound |-> FALSE,
     log |-> << LogEntry("round_start", "", 0, <<>>, 1, uuidv4(env, 1), env.now) >>,
     createdAt |-> Later(env),
     updatedAt |-> Later(env)]

\* ------------------------------------------------------------------------
\* Round lifecycle (round.ts)
\* ------------------------------------------------------------------------
\* Variant of checkGameEnd that does not look at the status.
checkGameEnd_AnyStatus(g) ==
    \E i \in 1 .. Len(g.players) : g.players[i].score >= g.victoryPoints

checkGameEnd(g) ==
    IF g.status # "roundEnd" THEN FALSE
    ELSE \E i \in 1 .. Len(g.players) : g.players[i].score >= g.victoryPoints

\* Variant of ReduceWinner that lets a later player with an equal score win.
RECURSIVE ReduceWinner_LastOnTie(_, _)
ReduceWinner_LastOnTie(prev, rest) ==
    IF rest = <<>> THEN prev
    ELSE ReduceWinner_LastOnTie(
             IF Head(rest).score >= prev.score THEN Head(rest) ELSE prev, Tail(rest))

RECURSIVE ReduceWinner(_, _)
ReduceWinner(prev, rest) ==
    IF rest = <<>> THEN prev
    ELSE ReduceWinner(IF Head(rest).score > prev.score THEN Head(rest) ELSE prev,
                      Tail(rest))

\* Undefined stands for null
determineWinner(g) ==
    IF g.status # "gameEnd" THEN Undefined
    ELSE LET winners == SelectSeq(g.players, LAMBDA p : p.score >= g.victoryPoints) IN
         IF Len(winners) = 0 THEN Undefined
         ELSE ReduceWinner(winners[1], winners)

\* Variant of endRound that files the closing entry ahead of the log.
endRound_EntryFirst(g, env) ==
    IF checkGameEnd(g)
    THEN LET winner == determineWinner([g EXCEPT !.status = "gameEnd"])
             gameEndLog ==
                 LogEntry("game_end", IF winner # Undefined THEN winner.id ELSE "",
                          0, <<>>, g.roundNumber,
                          <<"game-end", Later(env)>>, Later(env))
         IN [g EXCEPT !.status = "gameEnd", !.log = <<gameEndLog>> \o g.log,
                      !.updatedAt = Later(env)]
    ELSE LET roundEndLog ==
                 LogEntry("round_end", "", 0, <<>>, g.roundNumber,
                          <<"round-end", g.roundNumber, Later(env)>>, Later(env) + 1)
         IN [g EXCEPT !.status = "roundEnd", !.log = <<roundEndLog>> \o g.log,
                      !.updatedAt = Later(env)]

\* The identifiers of the round entries are built from Date.now(), the
\* round_end timestamp is Date.now() + 1.
endRound(g, env) ==
    IF checkGameEnd(g)
    THEN LET winner == determineWinner([g EXCEPT !.status = "gameEnd"])
             gameEndLog ==
                 LogEntry("game_end", IF winner # Undefined THEN winner.id ELSE "",
                          0, <<>>, g.roundNumber,
                          <<"game-end", Later(env)>>, Later(env))
         IN [g EXCEPT !.status = "gameEnd", !.log = Append(g.log, gameEndLog),
                      !.updatedAt = Later(env)]
    ELSE LET roundEndLog ==
                 LogEntry("round_end", "", 0, <<>>, g.roundNumber,
                          <<"round-end", g.roundNumber, Later(env)>>, Later(env) + 1)
         IN [g EXCEPT !.status = "roundEnd", !.log = Append(g.log, roundEndLog),
                      !.updatedAt = Later(env)]

\* Variant of ResetPlayerForRound that also clears the score.
ResetPlayerForRound_ClearScore(p, i) ==
    [p EXCEPT
       !.score = 0,
       !.piecesRemaining = TotalPieces,
       !.piecesRemainingByColor =
           IF p.color2 # NoColor /\ p.piecesRemainingByColor # Undefined
           THEN PiecesByColor(p.color, p.color2)
           ELSE p.piecesRemainingByColor,
       !.isActive = (i = 0)]

\* The per-player reset of startNewRound; i is the 0-based list index.
ResetPlayerForRound(p, i) ==
    [p EXCEPT
       !.piecesRemaining = TotalPieces,
       !.piecesRemainingByColor =
           IF p.color2 # NoColor /\ p.piecesRemainingByColor # Undefined
           THEN PiecesByColor(p.color, p.color2)
           ELSE p.piecesRemainingByColor,
       !.isActive = (i = 0)]

\* Variant of startNewRound that carries the board over into the new round.
startNewRound_KeepBoard(g, env) ==
    IF g.status # "roundEnd" THEN g
    ELSE LET newPlayers ==
                 [i \in 1 .. Len(g.players) |-> ResetPlayerForRound(g.players[i], i - 1)]
             newRoundNumber == g.roundNumber + 1
             roundStartLog ==
                 LogEntry("round_start", "", 0, <<>>, newRoundNumber,
                          <<"round-start", newRoundNumber, env.now>>, Later(env))
         IN [g EXCEPT
               !.players = newPlayers,
               !.roundNumber = newRoundNumber,
               !.currentPlayerIndex = 0,
               !.diceRoll = 0,
               !.toppleOccurred = FALSE,
               !.topplePlayerId = "",
               !.diceRolledInRound = FALSE,
               !.log = Append(g.log, roundStartLog),
               !.status = "playing",
               !.updatedAt = Later(env)]

startNewRound(g, env) ==
    IF g.status # "roundEnd" THEN g
    ELSE LET newBoard == createEmptyBoard
             newPlayers ==
                 [i \in 1 .. Len(g.players) |-> ResetPlayerForRound(g.players[i], i - 1)]
             newRoundNumber == g.roundNumber + 1
             roundStartLog ==
                 LogEntry("round_start", "", 0, <<>>, newRoundNumber,
                          <<"round-start", newRoundNumber, env.now>>, Later(env))
         IN [g EXCEPT
               !.board = newBoard,
               !.players = newPlayers,
               !.roundNumber = newRoundNumber,
               !.currentPlayerIndex = 0,
               !.diceRoll = 0,
               !.toppleOccurred = FALSE,
               !.topplePlayerId = "",
               !.diceRolledInRound = FALSE,
               !.log = Append(g.log, roundStartLog),
               !.status = "playing",
               !.updatedAt = Later(env)]

\* ------------------------------------------------------------------------
\* Reducer cases (gameState.ts, gameReducer)
\* ------------------------------------------------------------------------
\* players.find((p) => p.id === playerId), Undefined when absent
FindPlayer(players, playerId) ==
    LET i == FindIndex(players, LAMBDA p : p.id = playerId) IN
    IF i = -1 THEN Undefined ELSE players[i + 1]

\* Variant of SetActive that never clears a flag already set.
SetActive_Sticky(players, index) ==
    [i \in 1 .. Len(players) |->
        [players[i] EXCEPT !.isActive = (@ \/ i - 1 = index)]]

SetActive(players, index) ==
    [i \in 1 .. Len(players) |-> [players[i] EXCEPT !.isActive = (i - 1 = index)]]

Renumber(players) ==
    [i \in 1 .. Len(players) |-> [players[i] EXCEPT !.order = i - 1]]

\* Variant of SortByOrder that keeps the list as it is.
SortByOrder_Unsorted(players) == players

\* [...players].sort((a, b) => a.order - b.order): a stable sort
RECURSIVE SortByOrder(_)
SortByOrder(players) ==
    IF players = <<>> THEN <<>>
    ELSE LET k == CHOOSE i \in 1 .. Len(players) :
                     /\ \A j \in 1 .. Len(players) : players[i].order <= players[j].order
                     /\ \A j \in 1 .. (i - 1) : players[j].order > players[i].order
         IN <<players[k]>> \o
            SortByOrder(SubSeq(players, 1, k - 1) \o SubSeq(players, k + 1, Len(players)))

\* Math.max(...rolls.map((r) => r.roll)); -Infinity for an empty list,
\* which no roll equals.
MaxRoll(rolls) ==
    CHOOSE m \in {rolls[i].roll : i \in 1 .. Len(rolls)} :
        \A i \in 1 .. Len(rolls) : rolls[i].roll <= m

SetupGame(g, config, env) == initializeGame(config, env)

InitialDiceRollCase(g, rolls, playerOrder, env) ==
    LET winners ==
            IF rolls = <<>> THEN <<>>
            ELSE SelectSeq(rolls, LAMBDA r : r.roll = MaxRoll(rolls))
        orderGiven == playerOrder # Undefined /\ Len(playerOrder) = Len(g.players)
        fromOrder ==
            Renumber(MapSeq(SelectSeq(playerOrder,
                                      LAMBDA id : FindPlayer(g.players, id) # Undefined),
                            LAMBDA id : FindPlayer(g.players, id)))
        sortedByOrder == SortByOrder(g.players)
        winnerOrderIndex ==
            FindIndex(sortedByOrder, LAMBDA p : p.id = winners[1].playerId)
        rotated ==
            Renumber(SubSeq(sortedByOrder, winnerOrderIndex + 1, Len(sortedByOrder))
                     \o SubSeq(sortedByOrder, 1, winnerOrderIndex))
        playersToUse ==
            IF orderGiven THEN fromOrder
            ELSE IF Len(winners) = 1
                    /\ FindPlayer(g.players, winners[1].playerId) # Undefined
                 THEN rotated
            ELSE g.players
        winnerIndex == FindIndex(playersToUse, LAMBDA p : p.id = winners[1].playerId)
    IN IF Len(winners) = 1 /\ winnerIndex # -1
       THEN [g EXCEPT !.players = SetActive(playersToUse, winnerIndex),
                      !.currentPlayerIndex = winnerIndex,
                      !.updatedAt = env.now]
       ELSE IF orderGiven
            THEN [g EXCEPT !.players = playersToUse, !.updatedAt = env.now]
       ELSE g

\* Variant of RollDiceCase that rolls in any status.
RollDiceCase_AnyStatus(g, roll, env) ==
    IF g.currentPlayerIndex >= Len(g.players) THEN g
    ELSE LET currentPlayer == g.players[g.currentPlayerIndex + 1]
             playersToUse ==
                 IF ~currentPlayer.isActive
                 THEN SetActive(g.players, g.currentPlayerIndex)
                 ELSE g.players
             finalActivePlayer == playersToUse[g.currentPlayerIndex + 1]
             logEntry ==
                 LogEntry("dice_roll", finalActivePlayer.id, 0, <<>>, g.roundNumber,
                          uuidv4(env, 0), env.now)
         IN [g EXCEPT !.players = playersToUse,
                      !.diceRoll = roll,
                      !.diceRolledInRound = TRUE,
                      !.log = Append(g.log, logEntry),
                      !.updatedAt = Later(env)]

RollDiceCase(g, roll, env) ==
    IF g.status # "playing" THEN g
    ELSE IF g.currentPlayerIndex >= Len(g.players) THEN g
    ELSE LET currentPlayer == g.players[g.currentPlayerIndex + 1]
             playersToUse ==
                 IF ~currentPlayer.isActive
                 THEN SetActive(g.players, g.currentPlayerIndex)
                 ELSE g.players
             finalActivePlayer == playersToUse[g.currentPlayerIndex + 1]
             logEntry ==
                 LogEntry("dice_roll", finalActivePlayer.id, 0, <<>>, g.roundNumber,
                          uuidv4(env, 0), env.now)
         IN [g EXCEPT !.players = playersToUse,
                      !.diceRoll = roll,
                      !.diceRolledInRound = TRUE,
                      !.log = Append(g.log, logEntry),
                      !.updatedAt = Later(env)]

\* Variant of DecrementColor that takes a piece of every colour.
DecrementColor_EveryColor(map, pieceColor) ==
    [c \in DOMAIN map |-> IF map[c] - 1 > 0 THEN map[c] - 1 ELSE 0]

\* Math.max(0, (map[pieceColor] || 0) - 1) written back into the map
DecrementColor(map, pieceColor) ==
    [map EXCEPT ![pieceColor] = IF @ - 1 > 0 THEN @ - 1 ELSE 0]

\* Variant of NewStatus with the branches of the conditional swapped.
NewStatus_Swapped(allPiecesPlayed, status) ==
    IF allPiecesPlayed THEN status ELSE "roundEnd"

\* allPiecesPlayed ? "roundEnd" : state.status
NewStatus(allPiecesPlayed, status) == IF allPiecesPlayed THEN "roundEnd" ELSE status

\* Variant of NextPlayerIndex that leaves the turn with the player who
\* placed.
NextPlayerIndex_KeepsTurn(g, players) == g.currentPlayerIndex

\* (state.currentPlayerIndex + 1) % finalPlayers.length
NextPlayerIndex(g, players) == (g.currentPlayerIndex + 1) % Len(players)

\* Variant of PlacePieceFinish that decides the end of the game on the
\* scores before the exhaustion penalty.
PlacePieceFinish_DecidesBeforePenalty(g, position, player, newBoard, scoreEvents, newPlayers, env) ==
    LET baseTimestamp == env.now
        placementLog ==
            LogEntry("placement", player.id, 0, position, g.roundNumber,
                     uuidv4(env, 1), baseTimestamp)
        \* the event at 0-based index i - 1 is stamped baseTimestamp + index + 1
        scoreLogs ==
            [i \in 1 .. Len(scoreEvents) |->
                LogEntry("score", player.id, scoreEvents[i].points, <<>>, g.roundNumber,
                         uuidv4(env, 1 + i), baseTimestamp + (i - 1) + 1)]
        allPiecesPlayed == \A i \in 1 .. Len(newPlayers) : newPlayers[i].piecesRemaining = 0
        penalise == allPiecesPlayed /\ ~g.toppleOccurred /\ g.diceRolledInRound
                        /\ g.currentPlayerIndex < Len(newPlayers)
        lastPlayerIndex == g.currentPlayerIndex
        finalPlayers ==
            IF penalise
            THEN [i \in 1 .. Len(newPlayers) |->
                     IF i - 1 = lastPlayerIndex
                     THEN [newPlayers[i] EXCEPT !.score = @ - 3]
                     ELSE newPlayers[i]]
            ELSE newPlayers
        penaltyLogs ==
            IF penalise
            THEN << LogEntry("score", newPlayers[lastPlayerIndex + 1].id, -3, <<>>,
                             g.roundNumber, uuidv4(env, Len(scoreEvents) + 2),
                             baseTimestamp + Len(scoreEvents) + 1) >>
            ELSE <<>>
        nextPlayerIndex == (g.currentPlayerIndex + 1) % Len(finalPlayers)
        newStatus == NewStatus(allPiecesPlayed, g.status)
        updatedState ==
            [g EXCEPT !.board = newBoard,
                      !.players = SetActive(finalPlayers, nextPlayerIndex),
                      !.currentPlayerIndex = nextPlayerIndex,
                      !.diceRoll = 0,
                      !.log = g.log \o <<placementLog>> \o scoreLogs \o penaltyLogs,
                      !.status = newStatus,
                      !.updatedAt = Later(env)]
        decided ==
            endRound([updatedState EXCEPT !.players = SetActive(newPlayers, nextPlayerIndex)],
                     env)
    IN IF newStatus = "roundEnd"
       THEN [decided EXCEPT !.players = updatedState.players]
       ELSE updatedState

\* PLACE_PIECE, last part: exhaustion penalty, turn advance, new status and
\* the end of the round when every piece is played.
PlacePieceFinish(g, position, player, newBoard, scoreEvents, newPlayers, env) ==
    LET baseTimestamp == env.now
        placementLog ==
            LogEntry("placement", player.id, 0, position, g.roundNumber,
                     uuidv4(env, 1), baseTimestamp)
        \* the event at 0-based index i - 1 is stamped baseTimestamp + index + 1
        scoreLogs ==
            [i \in 1 .. Len(scoreEvents) |->
                LogEntry("score", player.id, scoreEvents[i].points, <<>>, g.roundNumber,
                         uuidv4(env, 1 + i), baseTimestamp + (i - 1) + 1)]
        allPiecesPlayed == \A i \in 1 .. Len(newPlayers) : newPlayers[i].piecesRemaining = 0
        penalise == allPiecesPlayed /\ ~g.toppleOccurred /\ g.diceRolledInRound
                        /\ g.currentPlayerIndex < Len(newPlayers)
        lastPlayerIndex == g.currentPlayerIndex
        finalPlayers ==
            IF penalise
            THEN [i \in 1 .. Len(newPlayers) |->
                     IF i - 1 = lastPlayerIndex
                     THEN [newPlayers[i] EXCEPT !.score = @ - 3]
                     ELSE newPlayers[i]]
            ELSE newPlayers
        penaltyLogs ==
            IF penalise
            THEN << LogEntry("score", newPlayers[lastPlayerIndex + 1].id, -3, <<>>,
                             g.roundNumber, uuidv4(env, Len(scoreEvents) + 2),
                             baseTimestamp + Len(scoreEvents) + 1) >>
            ELSE <<>>
        nextPlayerIndex == NextPlayerIndex(g, finalPlayers)
        newStatus == NewStatus(allPiecesPlayed, g.status)
        updatedState ==
            [g EXCEPT !.board = newBoard,
                      !.players = SetActive(finalPlayers, nextPlayerIndex),
                      !.currentPlayerIndex = nextPlayerIndex,
                      !.diceRoll = 0,
                      !.log = g.log \o <<placementLog>> \o scoreLogs \o penaltyLogs,
                      !.status = newStatus,
                      !.updatedAt = Later(env)]
    IN IF newStatus = "roundEnd" THEN endRound(updatedState, env) ELSE updatedState

\* Variant of PlacePieceUpdatePlayers that takes two pieces from a
\* single-colour player for every placement.
PlacePieceUpdatePlayers_TwoPerTurn(g, position, player, pieceColor, newBoard, scoreEvents, env) ==
    LET totalScoreIncrease == SumSeq(MapSeq(scoreEvents, LAMBDA e : e.points))
        dual(p) == p.color2 # NoColor /\ p.piecesRemainingByColor # Undefined
        updatePlayer(p) ==
            IF p.id # player.id THEN p
            ELSE
            LET newPiecesRemainingByColor ==
                    IF dual(p)
                    THEN DecrementColor(p.piecesRemainingByColor, pieceColor)
                    ELSE p.piecesRemainingByColor
                newPiecesRemaining ==
                    IF dual(p) THEN SumValues(newPiecesRemainingByColor)
                    ELSE p.piecesRemaining - 2
                ledger == p.color2 # NoColor /\ p.scoreByColor # Undefined
                                /\ totalScoreIncrease > 0
                newScoreByColor ==
                    IF ledger
                    THEN [p.scoreByColor EXCEPT ![pieceColor] = @ + totalScoreIncrease]
                    ELSE p.scoreByColor
                newScore ==
                    IF ledger THEN SumValues(newScoreByColor)
                    ELSE p.score + totalScoreIncrease
            IN [p EXCEPT !.piecesRemaining = newPiecesRemaining,
                         !.piecesRemainingByColor = newPiecesRemainingByColor,
                         !.score = newScore,
                         !.scoreByColor = newScoreByColor]
    IN PlacePieceFinish(g, position, player, newBoard, scoreEvents,
                        MapSeq(g.players, updatePlayer), env)

\* PLACE_PIECE, middle part: the acting player's pieces and score.
PlacePieceUpdatePlayers(g, position, player, pieceColor, newBoard, scoreEvents, env) ==
    LET totalScoreIncrease == SumSeq(MapSeq(scoreEvents, LAMBDA e : e.points))
        dual(p) == p.color2 # NoColor /\ p.piecesRemainingByColor # Undefined
        updatePlayer(p) ==
            IF p.id # player.id THEN p
            ELSE
            LET newPiecesRemainingByColor ==
                    IF dual(p)
                    THEN DecrementColor(p.piecesRemainingByColor, pieceColor)
                    ELSE p.piecesRemainingByColor
                newPiecesRemaining ==
                    IF dual(p) THEN SumValues(newPiecesRemainingByColor)
                    ELSE p.piecesRemaining - 1
                ledger == p.color2 # NoColor /\ p.scoreByColor # Undefined
                                /\ totalScoreIncrease > 0
                newScoreByColor ==
                    IF ledger
                    THEN [p.scoreByColor EXCEPT ![pieceColor] = @ + totalScoreIncrease]
                    ELSE p.scoreByColor
                newScore ==
                    IF ledger THEN SumValues(newScoreByColor)
                    ELSE p.score + totalScoreIncrease
            IN [p EXCEPT !.piecesRemaining = newPiecesRemaining,
                         !.piecesRemainingByColor = newPiecesRemainingByColor,
                         !.score = newScore,
                         !.scoreByColor = newScoreByColor]
    IN PlacePieceFinish(g, position, player, newBoard, scoreEvents,
                        MapSeq(g.players, updatePlayer), env)

\* PLACE_PIECE, first part after the guards: the piece, the board and the
\* score events stamped with the round number.
PlacePieceOnBoard(g, position, player, pieceColor, newBoard, env) ==
    PlacePieceUpdatePlayers(
        g, position, player, pieceColor, newBoard,
        MapSeq(calculateScore(newBoard, position, player, g.board, pieceColor),
               LAMBDA e : [e EXCEPT !.roundNumber = g.roundNumber]),
        env)

\* Variant of PlacePieceValidated that lets a player who is not active place.
PlacePieceValidated_AnyPlayer(g, position, player, color, pieceColor, env) ==
    LET dual(p) == p.color2 # NoColor /\ p.piecesRemainingByColor # Undefined IN
    IF player.piecesRemaining = 0 THEN g
    ELSE IF ~canPlacePiece(position, g.diceRoll, g.board) THEN g
    ELSE IF player.color2 # NoColor /\ color # NoColor
            /\ color # player.color /\ color # player.color2 THEN g
    ELSE IF dual(player) /\ player.piecesRemainingByColor[pieceColor] = 0 THEN g
    ELSE IF ~dual(player) /\ player.piecesRemaining = 0 THEN g
    ELSE PlacePieceOnBoard(g, position, player, pieceColor,
                           placePiece(g.board, position,
                                      createPiece(player.id, pieceColor, g.roundNumber, env)),
                           env)

PlacePieceValidated(g, position, player, color, pieceColor, env) ==
    LET dual(p) == p.color2 # NoColor /\ p.piecesRemainingByColor # Undefined IN
    IF ~player.isActive \/ player.piecesRemaining = 0 THEN g
    ELSE IF ~canPlacePiece(position, g.diceRoll, g.board) THEN g
    ELSE IF player.color2 # NoColor /\ color # NoColor
            /\ color # player.color /\ color # player.color2 THEN g
    ELSE IF dual(player) /\ player.piecesRemainingByColor[pieceColor] = 0 THEN g
    ELSE IF ~dual(player) /\ player.piecesRemaining = 0 THEN g
    ELSE PlacePieceOnBoard(g, position, player, pieceColor,
                           placePiece(g.board, position,
                                      createPiece(player.id, pieceColor, g.roundNumber, env)),
                           env)

PlacePieceFound(g, position, player, color, env) ==
    IF player = Undefined THEN g
    ELSE PlacePieceValidated(g, position, player, color,
                             IF color # NoColor THEN color ELSE player.color, env)

PlacePieceCase(g, position, playerId, color, env) ==
    IF g.diceRoll = 0 \/ g.status # "playing" THEN g
    ELSE PlacePieceFound(g, position, FindPlayer(g.players, playerId), color, env)

\* Variant of CompleteTurnCase that draws the next player at random.
CompleteTurnCase_RandomNext(g, env) ==
    IF g.status # "playing" THEN g
    ELSE LET nextPlayerIndex == (g.currentPlayerIndex + 1 + env.nonce) % Len(g.players) IN
         [g EXCEPT !.players = SetActive(g.players, nextPlayerIndex),
                   !.currentPlayerIndex = nextPlayerIndex,
                   !.diceRoll = 0,
                   !.updatedAt = env.now]

CompleteTurnCase(g, env) ==
    IF g.status # "playing" THEN g
    ELSE LET nextPlayerIndex == (g.currentPlayerIndex + 1) % Len(g.players) IN
         [g EXCEPT !.players = SetActive(g.players, nextPlayerIndex),
                   !.currentPlayerIndex = nextPlayerIndex,
                   !.diceRoll = 0,
                   !.updatedAt = env.now]

\* Math.round(x) for the rational x = num / den, den > 0: floor(x + 1/2)
MathRound(num, den) == (2 * num + den) \div (2 * den)

Max0(x) == IF x > 0 THEN x ELSE 0

\* Variant of PreviousPlayerIndex that steps forward in turn order.
PreviousPlayerIndex_Forward(currentPlayerIndex, playerCount) ==
    (currentPlayerIndex + 1) % playerCount

\* state.currentPlayerIndex > 0 ? state.currentPlayerIndex - 1 : state.players.length - 1
PreviousPlayerIndex(currentPlayerIndex, playerCount) ==
    IF currentPlayerIndex > 0 THEN currentPlayerIndex - 1 ELSE playerCount - 1

ToggleToppleCase(g, playerId, env) ==
    IF g.status # "playing" THEN g
    ELSE
    LET previousPlayerIndex == PreviousPlayerIndex(g.currentPlayerIndex, Len(g.players))
        previousPlayer == g.players[previousPlayerIndex + 1]
        causingPlayer == FindPlayer(g.players, playerId)
        dual(p) == p.color2 # NoColor /\ p.scoreByColor # Undefined
        penalised(p) ==
            LET color1Score == p.scoreByColor[p.color]
                color2Score == p.scoreByColor[p.color2]
                totalColorScore == color1Score + color2Score
                color1Penalty == MathRound(color1Score * 10, totalColorScore)
                color2Penalty == 10 - color1Penalty
                newScoreByColor ==
                    IF totalColorScore > 0
                    THEN [p.scoreByColor EXCEPT
                             ![p.color] = Max0(color1Score - color1Penalty),
                             ![p.color2] = Max0(color2Score - color2Penalty)]
                    ELSE [p.scoreByColor EXCEPT ![p.color] = Max0(@ - 10)]
            IN IF dual(p)
               THEN [p EXCEPT !.score = SumValues(newScoreByColor),
                              !.scoreByColor = newScoreByColor]
               ELSE [p EXCEPT !.score = @ - 10]
        rewarded(p) ==
            LET color1Score == p.scoreByColor[p.color]
                color2Score == p.scoreByColor[p.color2]
                newScoreByColor ==
                    IF color1Score >= color2Score
                    THEN [p.scoreByColor EXCEPT ![p.color] = color1Score + 3]
                    ELSE [p.scoreByColor EXCEPT ![p.color2] = color2Score + 3]
            IN IF dual(p)
               THEN [p EXCEPT !.score = SumValues(newScoreByColor),
                              !.scoreByColor = newScoreByColor]
               ELSE [p EXCEPT !.score = @ + 3]
        updatePlayer(p) ==
            IF p.id = playerId THEN penalised(p)
            ELSE IF p.id = previousPlayer.id THEN rewarded(p)
            ELSE p
        toppleLogEntry ==
            LogEntry("topple", causingPlayer.id, -10, <<>>, g.roundNumber,
                     uuidv4(env, 0), env.now)
        previousPlayerLogEntry ==
            LogEntry("score", previousPlayer.id, 3, <<>>, g.roundNumber,
                     uuidv4(env, 1), Later(env))
    IN IF causingPlayer = Undefined THEN g
       ELSE endRound([g EXCEPT
                        !.players = MapSeq(g.players, updatePlayer),
                        !.toppleOccurred = TRUE,
                        !.topplePlayerId = playerId,
                        !.log = g.log \o <<toppleLogEntry, previousPlayerLogEntry>>,
                        !.status = "roundEnd",
                        !.updatedAt = Later(env)],
                     env)

EndRoundCase(g, env) == endRound(g, env)

StartNewRoundCase(g, env) ==
    IF g.status # "roundEnd" THEN g ELSE startNewRound(g, env)

\* gameReducer: an action is a record with a type and its payload fields
gameReducer(g, action) ==
    IF g = NoGame /\ action.type \notin {"SETUP_GAME", "LOAD_GAME"} THEN NoGame
    ELSE CASE action.type = "SETUP_GAME" -> SetupGame(g, action.config, EnvOf(action))
           [] action.type = "INITIAL_DICE_ROLL" ->
                  InitialDiceRollCase(g, action.rolls, action.playerOrder, EnvOf(action))
           [] action.type = "LOAD_GAME" -> action.game
           [] action.type = "RESET_GAME" -> NoGame
           [] action.type = "ROLL_DICE" -> RollDiceCase(g, action.roll, EnvOf(action))
           [] action.type = "PLACE_PIECE" ->
                  PlacePieceCase(g, action.position, action.playerId, action.color,
                                 EnvOf(action))
           [] action.type = "COMPLETE_TURN" -> CompleteTurnCase(g, EnvOf(action))
           [] action.type = "TOGGLE_TOPPLE" ->
                  ToggleToppleCase(g, action.playerId, EnvOf(action))
           [] action.type = "END_ROUND" -> EndRoundCase(g, EnvOf(action))
           [] action.type = "START_NEW_ROUND" -> StartNewRoundCase(g, EnvOf(action))
           [] OTHER -> g

\* actions[from .. to] dispatched in order from snapshot g. The range is
\* halved so that the evaluation stays shallow, and the snapshot reached
\* at the middle is computed in full before the second half starts.
RECURSIVE RunRange(_, _, _, _)
RunRange(g, actions, from, to) ==
    IF from > to THEN g
    ELSE IF from = to THEN gameReducer(g, actions[from])
    ELSE LET mid == (from + to) \div 2 IN
         CHOOSE last \in {RunRange(half, actions, mid + 1, to) :
                             half \in {x \in {RunRange(g, actions, from, mid)} : x = x}} : TRUE

RunActions(g, actions) == RunRange(g, actions, 1, Len(actions))

\* A recorded game: the i-th action was dispatched ReplayPace milliseconds
\* after the one before it, with identifiers (seeds below 0) that no later
\* dispatch draws again.
ReplayPace == 1000

Recorded(actions) ==
    [i \in 1 .. Len(actions) |-> At(actions[i], Env(ReplayPace * i, 0, -i))]

\* ------------------------------------------------------------------------
\* Inputs
\* ------------------------------------------------------------------------
MaxSteps == 4

VictoryChoices == {5, 12}

PlayerConfig(name, color, color2, order) ==
    [name |-> name, color |-> color, color2 |-> color2, order |-> order]

SingleConfig2(vp) ==
    [playerCount |-> 2,
     players |-> << PlayerConfig("Alice", "pink", NoColor, 0),
                    PlayerConfig("Bob", "yellow", NoColor, 1) >>,
     victoryPoints |-> vp]

DualConfig2(vp) ==
    [playerCount |-> 2,
     players |-> << PlayerConfig("Alice", "pink", "orange", 0),
                    PlayerConfig("Bob", "yellow", "purple", 1) >>,
     victoryPoints |-> vp]

SingleConfig3(vp) ==
    [playerCount |-> 3,
     players |-> << PlayerConfig("Alice", "pink", NoColor, 0),
                    PlayerConfig("Bob", "yellow", NoColor, 1),
                    PlayerConfig("Cara", "orange", NoColor, 2) >>,
     victoryPoints |-> vp]

Configs ==
    {SingleConfig2(vp) : vp \in VictoryChoices}
        \cup {DualConfig2(vp) : vp \in VictoryChoices}
        \cup {SingleConfig3(vp) : vp \in VictoryChoices}

\* Values crypto.getRandomValues may put into the one-word array
MaxWord == 13

RandomWords == 0 .. MaxWord

\* Variant of rollDice that takes the remainder as the roll.
rollDice_Remainder(word) == word % 6

\* (array[0] % 6) + 1
rollDice(word) == (word % 6) + 1

DiceValues == {rollDice(word) : word \in RandomWords}

\* Cells offered to PLACE_PIECE: a corner of row A, the centre, and one
\* position outside the board.
PositionChoices == {<<0, 4>>, <<2, 2>>, <<0, 5>>}

ColorChoices == PlayerColor \cup {NoColor}

\* Ids a payload may name: the players of the game and one unknown id.
IdChoices(g) == {g.players[i].id : i \in 1 .. Len(g.players)} \cup {"player-9"}

\* Payloads of INITIAL_DICE_ROLL: every player rolls 1 or 2, or (the tie
\* path of the roll screen) no rolls at all; the order is absent or a
\* permutation of the player ids.
IdPermutations(ids) ==
    {s \in [1 .. Len(ids) -> {ids[i] : i \in 1 .. Len(ids)}] :
        \A i, j \in 1 .. Len(ids) : i # j => s[i] # s[j]}

RollChoices(g) ==
    {[i \in 1 .. Len(g.players) |-> [playerId |-> g.players[i].id, roll |-> f[i]]] :
        f \in [1 .. Len(g.players) -> {1, 2}]} \cup {<<>>}

OrderChoices(g) ==
    IdPermutations([i \in 1 .. Len(g.players) |-> g.players[i].id]) \cup {Undefined}

\* ------------------------------------------------------------------------
\* Saved snapshots: games played in an earlier session, each the result of
\* dispatching a fixed list of actions to the reducer.
\* ------------------------------------------------------------------------
Roll(d) == [type |-> "ROLL_DICE", roll |-> d]

Place(position, playerId, color) ==
    [type |-> "PLACE_PIECE", position |-> position, playerId |-> playerId, color |-> color]

Opening(config) ==
    << [type |-> "SETUP_GAME", config |-> config],
       [type |-> "INITIAL_DICE_ROLL",
        rolls |-> << [playerId |-> "player-1", roll |-> 6],
                     [playerId |-> "player-2", roll |-> 2] >>,
        playerOrder |-> Undefined] >>

\* The 20 cells off one transversal that meets all 12 lines: filling them
\* completes no line.
SafeCells ==
    SelectSeq([i \in 1 .. 25 |-> <<(i - 1) \div 5, (i - 1) % 5>>],
              LAMBDA p : p \notin {<<0, 0>>, <<1, 2>>, <<2, 4>>, <<3, 1>>, <<4, 3>>})

\* Two players alternate; turn k goes to cell cells[k] (cyclically) and, in
\* dual-colour mode, uses the primary colour for a player's first 12 pieces.
AlternatingTurns(n, cells, dualMode) ==
    [i \in 1 .. 2 * n |->
        LET k == (i + 1) \div 2
            first == (k % 2 = 1)
            j == (k + 1) \div 2
            color == IF ~dualMode THEN NoColor
                     ELSE IF first THEN (IF j <= TotalPieces THEN "pink" ELSE "orange")
                     ELSE (IF j <= TotalPieces THEN "yellow" ELSE "purple")
        IN IF i % 2 = 1 THEN Roll(6)
           ELSE Place(cells[((k - 1) % Len(cells)) + 1],
                      IF first THEN "player-1" ELSE "player-2", color)]

\* Row A filled except its last cell; player-1 is to move.
RowAlmostComplete ==
    RunActions(NoGame,
               Recorded(Opening(SingleConfig2(5))
                   \o AlternatingTurns(4, <<<<0, 0>>, <<0, 1>>, <<0, 2>>, <<0, 3>>>>, FALSE)))

\* Every piece placed but player-2's last one: 2 opening actions and
\* 2 * 23 turn actions.
SingleActions ==
    Opening(SingleConfig2(5)) \o AlternatingTurns(2 * TotalPieces - 1, SafeCells, FALSE)

SingleAlmostExhausted == RunActions(NoGame, Recorded(SingleActions))

\* The same in dual-colour mode: 2 opening actions and 2 * 47 turn actions.
DualActions ==
    Opening(DualConfig2(5)) \o AlternatingTurns(4 * TotalPieces - 1, SafeCells, TRUE)

DualAlmostExhausted == RunActions(NoGame, Recorded(DualActions))

SavedGames == {RowAlmostComplete, SingleAlmostExhausted, DualAlmostExhausted}

\* ------------------------------------------------------------------------
\* Inputs of calculateScore: boards whose cells each hold one piece of
\* player-2 or player-3, except four free cells that hold any of a few
\* stacks; the acting player, the selected colour and the piece placed.
\* ------------------------------------------------------------------------
FreeCells == {<<2, 2>>, <<0, 0>>, <<0, 2>>, <<4, 0>>}

StackChoices ==
    { <<>>,
      << createPiece("player-1", "pink", 1, Epoch) >>,
      << createPiece("player-1", "orange", 1, Epoch) >>,
      << createPiece("player-2", "yellow", 1, Epoch) >>,
      << createPiece("player-1", "pink", 1, Epoch), createPiece("player-2", "yellow", 1, Epoch),
         createPiece("player-1", "pink", 1, Epoch) >> }

Filler(row, col) ==
    IF (row + col) % 2 = 0 THEN createPiece("player-2", "yellow", 1, Epoch)
    ELSE createPiece("player-3", "purple", 1, Epoch)

ScoreBoard(choice) ==
    [cells |-> [row \in Idx |-> [col \in Idx |->
                    [row |-> row, col |-> col,
                     level |-> LEVEL_LAYOUT[row + 1][col + 1],
                     stack |-> IF <<row, col>> \in FreeCells THEN choice[<<row, col>>]
                               ELSE << Filler(row, col) >>]]],
     levelLayout |-> getLevelLayout]

ScoreBoards == {ScoreBoard(choice) : choice \in [FreeCells -> StackChoices]}

ScorePositions == FreeCells \cup {<<1, 1>>, <<3, 4>>}

ScorePlayers ==
    { [createPlayer("player-1", "Alice", "pink", "orange", 0) EXCEPT !.isActive = TRUE],
      [createPlayer("player-2", "Bob", "yellow", NoColor, 1) EXCEPT !.isActive = TRUE] }

ScoreColors == {NoColor, "orange"}

\* ------------------------------------------------------------------------
\* The state machine: one snapshot, changed only by dispatching an action.
\* scoreCall and scoreResult hold one direct call of calculateScore.
\* ------------------------------------------------------------------------
\* clock is the system clock after the last dispatch and twin the snapshot of
\* a second run of the same actions (both used by SpecRuns only).
VARIABLES game, steps, scoreCall, scoreResult, winner, validation, clock, twin

vars == <<game, steps, scoreCall, scoreResult, winner, validation, clock, twin>>

NoCall == [status |-> "none"]

Init ==
    /\ game = NoGame
    /\ steps = 0
    /\ scoreCall = NoCall
    /\ scoreResult = NoCall
    /\ winner = NoCall
    /\ validation = NoCall
    /\ clock = 0
    /\ twin = NoGame

SETUP_GAME ==
    /\ steps < MaxSteps
    /\ \E config \in Configs :
          game' = gameReducer(game, [type |-> "SETUP_GAME", config |-> config])
    /\ steps' = steps + 1
    /\ UNCHANGED <<scoreCall, scoreResult, winner, validation, clock, twin>>

LOAD_GAME ==
    /\ steps < MaxSteps
    /\ \E saved \in SavedGames :
          game' = gameReducer(game, [type |-> "LOAD_GAME", game |-> saved])
    /\ steps' = steps + 1
    /\ UNCHANGED <<scoreCall, scoreResult, winner, validation, clock, twin>>

RESET_GAME ==
    /\ steps < MaxSteps
    /\ game' = gameReducer(game, [type |-> "RESET_GAME"])
    /\ steps' = steps + 1
    /\ UNCHANGED <<scoreCall, scoreResult, winner, validation, clock, twin>>

INITIAL_DICE_ROLL ==
    /\ steps < MaxSteps
    /\ game # NoGame
    /\ \E rolls \in RollChoices(game), playerOrder \in OrderChoices(game) :
          game' = gameReducer(game, [type |-> "INITIAL_DICE_ROLL", rolls |-> rolls,
                                     playerOrder |-> playerOrder])
    /\ steps' = steps + 1
    /\ UNCHANGED <<scoreCall, scoreResult, winner, validation, clock, twin>>

ROLL_DICE ==
    /\ steps < MaxSteps
    /\ \E roll \in DiceValues : game' = gameReducer(game, Roll(roll))
    /\ steps' = steps + 1
    /\ UNCHANGED <<scoreCall, scoreResult, winner, validation, clock, twin>>

PLACE_PIECE ==
    /\ steps < MaxSteps
    /\ game # NoGame
    /\ \E position \in PositionChoices, playerId \in IdChoices(game),
          color \in ColorChoices :
          game' = gameReducer(game, Place(position, playerId, color))
    /\ steps' = steps + 1
    /\ UNCHANGED <<scoreCall, scoreResult, winner, validation, clock, twin>>

COMPLETE_TURN ==
    /\ steps < MaxSteps
    /\ game' = gameReducer(game, [type |-> "COMPLETE_TURN"])
    /\ steps' = steps + 1
    /\ UNCHANGED <<scoreCall, scoreResult, winner, validation, clock, twin>>

TOGGLE_TOPPLE ==
    /\ steps < MaxSteps
    /\ game # NoGame
    /\ \E playerId \in IdChoices(game) :
          game' = gameReducer(game, [type |-> "TOGGLE_TOPPLE", playerId |-> playerId])
    /\ steps' = steps + 1
    /\ UNCHANGED <<scoreCall, scoreResult, winner, validation, clock, twin>>

END_ROUND ==
    /\ steps < MaxSteps
    /\ game' = gameReducer(game, [type |-> "END_ROUND"])
    /\ steps' = steps + 1
    /\ UNCHANGED <<scoreCall, scoreResult, winner, validation, clock, twin>>

START_NEW_ROUND ==
    /\ steps < MaxSteps
    /\ game' = gameReducer(game, [type |-> "START_NEW_ROUND"])
    /\ steps' = steps + 1
    /\ UNCHANGED <<scoreCall, scoreResult, winner, validation, clock, twin>>

Next ==
    \/ SETUP_GAME
    \/ LOAD_GAME
    \/ RESET_GAME
    \/ INITIAL_DICE_ROLL
    \/ ROLL_DICE
    \/ PLACE_PIECE
    \/ COMPLETE_TURN
    \/ TOGGLE_TOPPLE
    \/ END_ROUND
    \/ START_NEW_ROUND

Spec == Init /\ [][Next]_vars

\* ------------------------------------------------------------------------
\* calculateScore called directly: the inputs are drawn at Init, the one
\* action places the piece (board.ts placePiece) and scores the placement.
\* viaReducer records that the piece is the acting player's own piece of
\* the colour being matched, as PLACE_PIECE always passes it.
\* ------------------------------------------------------------------------
ColorToMatch(player, selectedColor) ==
    IF selectedColor # NoColor THEN selectedColor ELSE player.color

InitScore ==
    /\ game = NoGame
    /\ steps = 0
    /\ scoreResult = NoCall
    /\ winner = NoCall
    /\ validation = NoCall
    /\ clock = 0
    /\ twin = NoGame
    /\ \E previousBoard \in ScoreBoards, position \in ScorePositions,
          player \in ScorePlayers, selectedColor \in ScoreColors,
          viaReducer \in BOOLEAN :
          scoreCall =
              [status |-> "called",
               previousBoard |-> previousBoard,
               position |-> position,
               player |-> player,
               selectedColor |-> selectedColor,
               piece |-> IF viaReducer
                         THEN createPiece(player.id, ColorToMatch(player, selectedColor), 1, Epoch)
                         ELSE createPiece("player-3", "purple", 1, Epoch),
               viaReducer |-> viaReducer]

CALCULATE_SCORE ==
    /\ scoreCall # NoCall
    /\ scoreResult = NoCall
    /\ LET board == placePiece(scoreCall.previousBoard, scoreCall.position, scoreCall.piece)
       IN scoreResult' =
              [status |-> "returned",
               board |-> board,
               events |-> calculateScore(board, scoreCall.position, scoreCall.player,
                                         scoreCall.previousBoard, scoreCall.selectedColor)]
    /\ UNCHANGED <<game, steps, scoreCall, winner, validation, clock, twin>>

NextScore == CALCULATE_SCORE

SpecScore == InitScore /\ [][NextScore]_vars

\* ------------------------------------------------------------------------
\* Winner specification: determineWinner applied to one snapshot drawn
\* from a bounded set
\* ------------------------------------------------------------------------
WinnerStatuses == {"playing", "roundEnd", "gameEnd"}

WinnerScores == {3, 5, 8}

WinnerVictoryPoints == {5, 8}

\* A three-player game with the given status and scores
WinnerSnapshot(status, victoryPoints, scores) ==
    LET g == initializeGame(SingleConfig3(victoryPoints), Epoch) IN
    [g EXCEPT !.status = status,
              !.players = [i \in 1 .. 3 |-> [g.players[i] EXCEPT !.score = scores[i]]]]

InitWinner ==
    /\ steps = 0
    /\ scoreCall = NoCall
    /\ scoreResult = NoCall
    /\ winner = NoCall
    /\ validation = NoCall
    /\ clock = 0
    /\ twin = NoGame
    /\ \E status \in WinnerStatuses, victoryPoints \in WinnerVictoryPoints,
          scores \in [1 .. 3 -> WinnerScores] :
          game = WinnerSnapshot(status, victoryPoints, scores)

DETERMINE_WINNER ==
    /\ winner = NoCall
    /\ winner' = [status |-> "returned", player |-> determineWinner(game)]
    /\ UNCHANGED <<game, steps, scoreCall, scoreResult, validation, clock, twin>>

NextWinner == DETERMINE_WINNER

SpecWinner == InitWinner /\ [][NextWinner]_vars

\* ------------------------------------------------------------------------
\* validateGameConfig applied to setup forms
\* ------------------------------------------------------------------------
ValidateNames == {<<"A">>, <<" ", "A">>, <<" ", " ">>, <<>>}

ValidateColors == {"pink", "yellow", "teal"}

ValidateSecondColors == {NoColor, "pink", "orange"}

ValidateOrders == {-1, 0, 1, 4}

ValidatePlayerConfigs ==
    {[name |-> name, color |-> color, color2 |-> color2, order |-> order] :
        name \in ValidateNames, color \in ValidateColors,
        color2 \in ValidateSecondColors, order \in ValidateOrders}

\* The third and fourth player of a form: a valid entry, a repeated colour,
\* a repeated order, an empty name.
ValidateLatePlayers ==
    {[name |-> <<"C">>, color |-> "orange", color2 |-> NoColor, order |-> 2],
     [name |-> <<"C">>, color |-> "purple", color2 |-> NoColor, order |-> 3],
     [name |-> <<"C">>, color |-> "pink", color2 |-> "pink", order |-> 2],
     [name |-> <<"C">>, color |-> "orange", color2 |-> "teal", order |-> 1],
     [name |-> <<>>, color |-> "orange", color2 |-> NoColor, order |-> 2]}

ValidatePlayerLists ==
    {<<a>> : a \in ValidatePlayerConfigs}
        \cup {<<a, b>> : a \in ValidatePlayerConfigs, b \in ValidatePlayerConfigs}
        \cup {<<a, b, c>> : a \in ValidatePlayerConfigs, b \in ValidateLatePlayers,
                            c \in ValidateLatePlayers}
        \cup {<<a, b, c, d>> : a \in {x \in ValidatePlayerConfigs : x.order = 0},
                               b \in {x \in ValidatePlayerConfigs :
                                          x.color = "yellow" /\ x.color2 = NoColor},
                               c \in ValidateLatePlayers, d \in ValidateLatePlayers}

ValidatePlayerCounts == {1, 2, 3, 4, 5}

\* -1, 0, 5 and 5/2
ValidateVictoryPoints ==
    {[num |-> -1, den |-> 1], [num |-> 0, den |-> 1], [num |-> 5, den |-> 1],
     [num |-> 5, den |-> 2]}

InitValidate ==
    /\ game = NoGame
    /\ steps = 0
    /\ scoreCall = NoCall
    /\ scoreResult = NoCall
    /\ winner = NoCall
    /\ clock = 0
    /\ twin = NoGame
    /\ \E playerCount \in ValidatePlayerCounts, players \in ValidatePlayerLists,
          victoryPoints \in ValidateVictoryPoints :
          validation = [status |-> "called",
                        config |-> [playerCount |-> playerCount, players |-> players,
                                    victoryPoints |-> victoryPoints]]

VALIDATE_GAME_CONFIG ==
    /\ validation.status = "called"
    /\ validation' = [status |-> "returned", config |-> validation.config,
                      result |-> validateGameConfig(validation.config)]
    /\ UNCHANGED <<game, steps, scoreCall, scoreResult, winner, clock, twin>>

NextValidate == VALIDATE_GAME_CONFIG

SpecValidate == InitValidate /\ [][NextValidate]_vars

\* ------------------------------------------------------------------------
\* The last turn of a round: saved games in which one piece is left, then
\* ROLL_DICE and PLACE_PIECE.
\* ------------------------------------------------------------------------
AllCells == [i \in 1 .. 25 |-> <<(i - 1) \div 5, (i - 1) % 5>>]

\* A single-colour game to 12 points played over all 25 cells, so that
\* lines are completed and both players score during the round.
FullBoardActions ==
    Opening(SingleConfig2(12)) \o AlternatingTurns(2 * TotalPieces - 1, AllCells, FALSE)

FullBoardAlmostExhausted == RunActions(NoGame, Recorded(FullBoardActions))

\* The second round of a two-colour game to 5 points: player-1 toppled the
\* first round at once, which gave player-2 three points.
SecondRoundActions ==
    Opening(DualConfig2(5))
        \o << [type |-> "TOGGLE_TOPPLE", playerId |-> "player-1"],
              [type |-> "START_NEW_ROUND"] >>
        \o AlternatingTurns(4 * TotalPieces - 1, SafeCells, TRUE)

SecondRoundAlmostExhausted == RunActions(NoGame, Recorded(SecondRoundActions))

ExhaustionGames ==
    {SingleAlmostExhausted, DualAlmostExhausted,
     FullBoardAlmostExhausted, SecondRoundAlmostExhausted}

InitExhaust ==
    /\ game \in {gameReducer(NoGame, [type |-> "LOAD_GAME", game |-> saved]) :
                    saved \in ExhaustionGames}
    /\ steps = 0
    /\ scoreCall = NoCall
    /\ scoreResult = NoCall
    /\ winner = NoCall
    /\ validation = NoCall
    /\ clock = 0
    /\ twin = NoGame

NextExhaust ==
    \/ ROLL_DICE
    \/ PLACE_PIECE

SpecExhaust == InitExhaust /\ [][NextExhaust]_vars

\* ------------------------------------------------------------------------
\* One round played to its end: after the opening, ROLL_DICE and a
\* placement by the current player that the reducer accepts alternate.
\* The die shows 1 or 6 and the piece goes to the centre, which both
\* values allow; a two-colour player uses up the primary colour first.
\* ------------------------------------------------------------------------
RoundRolls == {1, 6}

RoundCells == {<<2, 2>>}

RoundColors(p) ==
    IF p.color2 = NoColor THEN {NoColor}
    ELSE IF p.piecesRemainingByColor[p.color] > 0 THEN {p.color}
    ELSE {p.color2}

InitRound ==
    /\ game \in {RunActions(NoGame, Opening(config)) : config \in Configs}
    /\ steps = 0
    /\ scoreCall = NoCall
    /\ scoreResult = NoCall
    /\ winner = NoCall
    /\ validation = NoCall
    /\ clock = 0
    /\ twin = NoGame

RoundRollDice ==
    /\ game.status = "playing"
    /\ game.diceRoll = 0
    /\ \E roll \in RoundRolls : game' = gameReducer(game, Roll(roll))
    /\ clock' = clock + 1
    /\ UNCHANGED <<steps, scoreCall, scoreResult, winner, validation, twin>>

RoundPlacePiece ==
    /\ game.status = "playing"
    /\ game.diceRoll # 0
    /\ \E position \in RoundCells,
          color \in RoundColors(game.players[game.currentPlayerIndex + 1]) :
          /\ gameReducer(game, Place(position, game.players[game.currentPlayerIndex + 1].id,
                                     color)) # game
          /\ game' = gameReducer(game, Place(position,
                                             game.players[game.currentPlayerIndex + 1].id,
                                             color))
    /\ clock' = clock + 1
    /\ UNCHANGED <<steps, scoreCall, scoreResult, winner, validation, twin>>

NextRound ==
    \/ RoundRollDice
    \/ RoundPlacePiece

\* A move of the round read off the clock: every step of NextRound is made
\* while the round is being played and advances the clock by one.
RoundMove ==
    /\ game.status = "playing"
    /\ clock' = clock + 1

\* The players keep playing: while the round is being played the next move
\* is eventually made.
SpecRound == InitRound /\ [][NextRound]_vars /\ WF_clock(RoundMove)

\* ------------------------------------------------------------------------
\* The initial dice roll on its own: a game set up with two or three
\* players seated in any order the setup form accepts (distinct orders
\* from 0 to 3), then INITIAL_DICE_ROLL dispatched repeatedly.
\* ------------------------------------------------------------------------
SeatOrders == 0 .. 3

SeatNames == <<"Alice", "Bob", "Cara">>

SeatColors == <<"pink", "yellow", "orange">>

SeatConfigs ==
    {[playerCount |-> n,
      players |-> [i \in 1 .. n |->
                      PlayerConfig(SeatNames[i], SeatColors[i], NoColor, orders[i])],
      victoryPoints |-> 5] :
        n \in {2, 3},
        orders \in {o \in [1 .. 3 -> SeatOrders] :
                       \A i, j \in 1 .. 3 : i # j => o[i] # o[j]}}

InitSeating ==
    /\ game \in {gameReducer(NoGame, [type |-> "SETUP_GAME", config |-> config]) :
                    config \in SeatConfigs}
    /\ steps = 0
    /\ scoreCall = NoCall
    /\ scoreResult = NoCall
    /\ winner = NoCall
    /\ validation = NoCall
    /\ clock = 0
    /\ twin = NoGame

NextSeating == INITIAL_DICE_ROLL

SpecSeating == InitSeating /\ [][NextSeating]_vars

\* ------------------------------------------------------------------------
\* Two runs of the same actions. Every dispatch reads the clock and draws
\* identifiers: the first run reads `clock + tick` and, later in the handler,
\* `lag` more (Paces); the second run happens at other times with other identifiers
\* (TwinEnv). The clock never goes back, and a saved game is loaded no
\* earlier than the latest reading it records.
\* ------------------------------------------------------------------------
MaxRunSteps == 3

\* How a dispatch is timed: in the millisecond of the last clock reading
\* by a handler that finishes within it, or 5 ms later by a handler that
\* takes 1 ms.
Paces == {[tick |-> 0, lag |-> 0], [tick |-> 5, lag |-> 1]}

TwinDelay == 7

TwinEnv(env) == Env(2 * env.now + TwinDelay, 2 * env.lag, env.nonce + MaxRunSteps)

MaxOf(numbers) == CHOOSE n \in numbers : \A m \in numbers : m <= n

\* The latest clock reading a snapshot records
LatestReading(g) ==
    IF g = NoGame THEN 0
    ELSE MaxOf({g.updatedAt} \cup {g.log[i].timestamp : i \in 1 .. Len(g.log)})

Dispatch(action, env) ==
    /\ game' = gameReducer(game, At(action, env))
    /\ twin' = gameReducer(twin, At(action, TwinEnv(env)))
    /\ clock' = IF action.type = "LOAD_GAME"
                THEN MaxOf({Later(env), LatestReading(action.game)})
                ELSE Later(env)
    /\ steps' = steps + 1
    /\ UNCHANGED <<scoreCall, scoreResult, winner, validation>>

\* The order override of a run: none, or the players in reverse.
RunOrderChoices(g) ==
    {Undefined, [i \in 1 .. Len(g.players) |-> g.players[Len(g.players) + 1 - i].id]}

\* The colour named by a placement of a run: none, or a second colour of
\* the two-colour game (the player's own or the opponent's).
RunColorChoices == {NoColor, "orange", "purple"}

\* The saved games a run loads: one in each colour mode.
RunSavedGames == {RowAlmostComplete, DualAlmostExhausted}

Readings == {Env(clock + pace.tick, pace.lag, steps) : pace \in Paces}

RunSetupGame ==
    /\ steps < MaxRunSteps
    /\ \E config \in Configs, env \in Readings :
          Dispatch([type |-> "SETUP_GAME", config |-> config], env)

RunLoadGame ==
    /\ steps < MaxRunSteps
    /\ \E saved \in RunSavedGames, env \in Readings :
          Dispatch([type |-> "LOAD_GAME", game |-> saved], env)

RunResetGame ==
    /\ steps < MaxRunSteps
    /\ \E env \in Readings : Dispatch([type |-> "RESET_GAME"], env)

RunInitialDiceRoll ==
    /\ steps < MaxRunSteps
    /\ game # NoGame
    /\ \E rolls \in RollChoices(game), playerOrder \in RunOrderChoices(game),
          env \in Readings :
          Dispatch([type |-> "INITIAL_DICE_ROLL", rolls |-> rolls,
                    playerOrder |-> playerOrder], env)

RunRollDice ==
    /\ steps < MaxRunSteps
    /\ \E roll \in DiceValues, env \in Readings : Dispatch(Roll(roll), env)

RunPlacePiece ==
    /\ steps < MaxRunSteps
    /\ game # NoGame
    /\ \E position \in PositionChoices, playerId \in IdChoices(game),
          color \in RunColorChoices, env \in Readings :
          Dispatch(Place(position, playerId, color), env)

RunCompleteTurn ==
    /\ steps < MaxRunSteps
    /\ \E env \in Readings : Dispatch([type |-> "COMPLETE_TURN"], env)

RunToggleTopple ==
    /\ steps < MaxRunSteps
    /\ game # NoGame
    /\ \E playerId \in IdChoices(game), env \in Readings :
          Dispatch([type |-> "TOGGLE_TOPPLE", playerId |-> playerId], env)

RunEndRound ==
    /\ steps < MaxRunSteps
    /\ \E env \in Readings : Dispatch([type |-> "END_ROUND"], env)

RunStartNewRound ==
    /\ steps < MaxRunSteps
    /\ \E env \in Readings : Dispatch([type |-> "START_NEW_ROUND"], env)

NextRuns ==
    \/ RunSetupGame
    \/ RunLoadGame
    \/ RunResetGame
    \/ RunInitialDiceRoll
    \/ RunRollDice
    \/ RunPlacePiece
    \/ RunCompleteTurn
    \/ RunToggleTopple
    \/ RunEndRound
    \/ RunStartNewRound

SpecRuns == Init /\ [][NextRuns]_vars

\* ========================================================================
\* Properties
\* ========================================================================
Last(seq) == seq[Len(seq)]

PlayerIndexes(g) == 1 .. Len(g.players)

ActivePlayers(g) == {i \in PlayerIndexes(g) : g.players[i].isActive}

SingleColorMode(g) == \A i \in PlayerIndexes(g) : g.players[i].color2 = NoColor

DualColorMode(g) == \A i \in PlayerIndexes(g) : g.players[i].color2 # NoColor

\* Number of pieces on the board that satisfy Match
PiecesOnBoard(board, Match(_)) ==
    SumFn([p \in AllPositions |-> CountSeq(StackAt(board, p), Match)], AllPositions)

\* Sum of the points of the log entries that carry the player's id
LogPoints(log, playerId) ==
    SumSeq([i \in 1 .. Len(log) |->
               IF log[i].playerId = playerId THEN log[i].points ELSE 0])

PlaceInputs(g) == PositionChoices \X IdChoices(g) \X ColorChoices

\* ---- C1 ---------------------------------------------------------------
\* C1: a PLACE_PIECE that succeeds and leaves some player with a piece
\* never ends the game or the round: status stays playing, whatever the
\* scores are.
C1_NoGameEndMidRound ==
    game # NoGame =>
        \A in \in PlaceInputs(game) :
            LET after == gameReducer(game, Place(in[1], in[2], in[3])) IN
            (after # game /\ \E i \in PlayerIndexes(after) :
                                after.players[i].piecesRemaining > 0)
                => after.status = "playing"

\* A placement has just lifted its player to victoryPoints or above while
\* pieces remain, and the game is still being played.
C1_Witness ==
    /\ game # NoGame
    /\ game.status = "playing"
    /\ Last(game.log).type = "score"
    /\ \E i \in PlayerIndexes(game) :
          /\ game.players[i].id = Last(game.log).playerId
          /\ game.players[i].score >= game.victoryPoints
          /\ game.players[i].score - Last(game.log).points < game.victoryPoints
    /\ \E i \in PlayerIndexes(game) : game.players[i].piecesRemaining > 0

\* ---- C2 ---------------------------------------------------------------
\* C2: START_NEW_ROUND from roundEnd keeps every player's score and
\* scoreByColor, id, name, colours and place in the list, and keeps
\* victoryPoints.
C2_StartNewRoundKeepsScores ==
    (game # NoGame /\ game.status = "roundEnd") =>
        LET after == gameReducer(game, [type |-> "START_NEW_ROUND"]) IN
        /\ after.status = "playing"
        /\ after.victoryPoints = game.victoryPoints
        /\ Len(after.players) = Len(game.players)
        /\ \A i \in PlayerIndexes(game) :
              /\ after.players[i].score = game.players[i].score
              /\ after.players[i].scoreByColor = game.players[i].scoreByColor
              /\ after.players[i].id = game.players[i].id
              /\ after.players[i].name = game.players[i].name
              /\ after.players[i].color = game.players[i].color
              /\ after.players[i].color2 = game.players[i].color2
              /\ after.players[i].order = game.players[i].order

\* A round has just been started in a dual-colour game in which a colour
\* ledger carries points from the round before.
C2_Witness ==
    /\ game # NoGame
    /\ game.status = "playing"
    /\ game.roundNumber > 1
    /\ Last(game.log).type = "round_start"
    /\ \E i \in PlayerIndexes(game) :
          /\ game.players[i].color2 # NoColor
          /\ game.players[i].score # 0
          /\ \E c \in PlayerColor : game.players[i].scoreByColor[c] # 0

\* ---- C3 ---------------------------------------------------------------
\* C3: every player's score equals the sum of the points of the log
\* entries that carry the player's id.
C3_ScoreIsLogSum ==
    game # NoGame =>
        \A i \in PlayerIndexes(game) :
            game.players[i].score = LogPoints(game.log, game.players[i].id)

\* ---- C4 ---------------------------------------------------------------
\* C4: piecesRemaining plus the player's pieces on the board is
\* totalPieces (12); in dual-colour mode the same holds for each of the
\* player's two colours, and the two per-colour counts add up to
\* piecesRemaining.
C4_PieceConservation ==
    game # NoGame =>
        \A i \in PlayerIndexes(game) :
            LET p == game.players[i] IN
            /\ p.totalPieces = 12
            /\ p.color2 = NoColor =>
                  p.piecesRemaining
                      + PiecesOnBoard(game.board, LAMBDA pc : pc.playerId = p.id)
                  = p.totalPieces
            /\ p.color2 # NoColor =>
                  /\ \A c \in {p.color, p.color2} :
                        p.piecesRemainingByColor[c]
                            + PiecesOnBoard(game.board,
                                            LAMBDA pc : pc.playerId = p.id /\ pc.color = c)
                        = p.totalPieces
                  /\ p.piecesRemainingByColor[p.color] + p.piecesRemainingByColor[p.color2]
                        = p.piecesRemaining

\* ---- C5 ---------------------------------------------------------------
\* C5: in dual-colour mode every player's score is the sum of the player's
\* scoreByColor entries.
C5_ScoreIsLedgerSum ==
    game # NoGame =>
        \A i \in PlayerIndexes(game) :
            game.players[i].color2 # NoColor =>
                game.players[i].score = SumValues(game.players[i].scoreByColor)

\* ---- C6 ---------------------------------------------------------------
\* C6 (as claimed): while status is playing exactly one player is active.
C6_ExactlyOneActive ==
    (game # NoGame /\ game.status = "playing") =>
        Cardinality(ActivePlayers(game)) = 1

\* C6 (amended): while status is playing at most one player is active, and
\* none is active only in the first round before any die is rolled or
\* piece placed (the state SETUP_GAME leaves until a starting player is
\* set).
C6_OneActiveOnceTurnSet ==
    (game # NoGame /\ game.status = "playing") =>
        /\ Cardinality(ActivePlayers(game)) <= 1
        /\ ActivePlayers(game) = {} =>
              /\ game.roundNumber = 1
              /\ ~game.diceRolledInRound
              /\ game.diceRoll = 0
              /\ Len(game.log) = 1
              /\ game.board = createEmptyBoard

\* The turn has passed to another player after a placement: exactly that
\* player is active.
C6_Witness ==
    /\ game # NoGame
    /\ game.status = "playing"
    /\ Len(game.log) > 1
    /\ Last(game.log).type = "placement"
    /\ ActivePlayers(game) = {game.currentPlayerIndex + 1}
    /\ game.players[game.currentPlayerIndex + 1].id # Last(game.log).playerId

\* ---- C7 ---------------------------------------------------------------
\* C7: in single-colour mode with status playing, TOGGLE_TOPPLE naming the
\* current player takes 10 from that player, gives 3 to the player at the
\* cyclically preceding index, changes no other score, records the topple
\* and ends the round: gameEnd if a score is then at or above
\* victoryPoints, roundEnd otherwise.
C7_ToppleByCurrentPlayer ==
    (game # NoGame /\ game.status = "playing" /\ SingleColorMode(game)) =>
        LET n == Len(game.players)
            cur == game.currentPlayerIndex + 1
            prev == ((game.currentPlayerIndex + n - 1) % n) + 1
            after == gameReducer(game, [type |-> "TOGGLE_TOPPLE",
                                        playerId |-> game.players[cur].id])
        IN /\ Len(after.players) = n
           /\ \A i \in 1 .. n :
                 after.players[i].score =
                     game.players[i].score
                         + (IF i = cur THEN -10 ELSE IF i = prev THEN 3 ELSE 0)
           /\ after.toppleOccurred
           /\ after.topplePlayerId = game.players[cur].id
           /\ after.status =
                 IF \E i \in 1 .. n : after.players[i].score >= after.victoryPoints
                 THEN "gameEnd" ELSE "roundEnd"

\* The current player of a three-player single-colour game has toppled and
\* now has a negative score, and the round is over.
C7_Witness ==
    /\ game # NoGame
    /\ SingleColorMode(game)
    /\ Len(game.players) = 3
    /\ game.toppleOccurred
    /\ game.topplePlayerId = game.players[game.currentPlayerIndex + 1].id
    /\ game.players[game.currentPlayerIndex + 1].score < 0
    /\ game.status = "roundEnd"

\* ---- C8 ---------------------------------------------------------------
\* C8: whichever player TOGGLE_TOPPLE names, the player just before that
\* player in turn order gains 3.
C8_BonusToPlayerBeforeCausing ==
    (game # NoGame /\ game.status = "playing") =>
        \A c \in PlayerIndexes(game) :
            LET n == Len(game.players)
                before == (((c - 1) + n - 1) % n) + 1
                after == gameReducer(game, [type |-> "TOGGLE_TOPPLE",
                                            playerId |-> game.players[c].id])
            IN after.players[before].score = game.players[before].score + 3

\* ---- C9 ---------------------------------------------------------------
\* The 12 lines as sets of cells, each with its label.
ClaimLines ==
    {[cells |-> {<<r, c>> : c \in Idx},
      label |-> <<"row", <<"A", "B", "C", "D", "E">>[r + 1]>>] : r \in Idx}
    \cup {[cells |-> {<<r, c>> : r \in Idx},
           label |-> <<"column", <<"1", "2", "3", "4", "5">>[c + 1]>>] : c \in Idx}
    \cup {[cells |-> {<<i, i>> : i \in Idx},
           label |-> <<"diagonal", "top-left to bottom-right">>],
          [cells |-> {<<i, 4 - i>> : i \in Idx},
           label |-> <<"diagonal", "top-right to bottom-left">>]}

IsFull(board, line) == \A p \in line.cells : StackAt(board, p) # <<>>

\* Cells of the line whose top piece is the player's and of the colour
OwnTops(board, line, player, color) ==
    Cardinality({p \in line.cells :
                    /\ StackAt(board, p) # <<>>
                    /\ Last(StackAt(board, p)).playerId = player.id
                    /\ Last(StackAt(board, p)).color = color})

EventsOf(reason) == SelectSeq(scoreResult.events, LAMBDA e : e.reason = reason)

NewlyFull ==
    {line \in ClaimLines :
        IsFull(scoreResult.board, line) /\ ~IsFull(scoreCall.previousBoard, line)}

ActiveColor ==
    IF scoreCall.selectedColor # NoColor THEN scoreCall.selectedColor
    ELSE scoreCall.player.color

FullBeforeThroughPosition ==
    {line \in ClaimLines :
        IsFull(scoreCall.previousBoard, line) /\ scoreCall.position \in line.cells}

\* C10: when the piece placed is the acting player's own piece of the
\* active colour (every PLACE_PIECE), there is one completed_row_bonus
\* event for each line that was full before and contains the position,
\* worth the number of cells of that line topped by the acting player's
\* active colour; no other line has one, and no line has both a
\* row_completion and a completed_row_bonus.
C10_CompletedRowBonus ==
    (scoreResult # NoCall /\ scoreCall.viaReducer) =>
        LET bonus == EventsOf("completed_row_bonus")
            completion == EventsOf("row_completion")
        IN /\ Len(bonus) = Cardinality(FullBeforeThroughPosition)
           /\ \A line \in FullBeforeThroughPosition :
                 \E i \in 1 .. Len(bonus) :
                    /\ bonus[i].details = <<line.label>>
                    /\ bonus[i].points =
                          OwnTops(scoreResult.board, line, scoreCall.player, ActiveColor)
           /\ \A i \in 1 .. Len(bonus), j \in 1 .. Len(completion) :
                 \A k \in 1 .. Len(completion[j].details) :
                    bonus[i].details[1] # completion[j].details[k]

\* A placement on top of a full line earns exactly one bonus while another
\* full line, which the position is not on, earns nothing.
C10_Witness ==
    /\ scoreResult # NoCall
    /\ scoreCall.viaReducer
    /\ Len(EventsOf("completed_row_bonus")) = 1
    /\ EventsOf("completed_row_bonus")[1].points >= 2
    /\ \E line \in ClaimLines :
          IsFull(scoreCall.previousBoard, line) /\ scoreCall.position \notin line.cells
\* ---- C11 --------------------------------------------------------------
\* C11: when the piece placed is the acting player's own piece of the
\* active colour (every PLACE_PIECE), there is a tall_stack event iff the
\* cell held at least 3 pieces before, there is then exactly one, and its
\* points are the number of pieces of the acting player's active colour in
\* that cell's stack after the placement.
C11_TallStack ==
    (scoreResult # NoCall /\ scoreCall.viaReducer) =>
        LET tall == EventsOf("tall_stack")
            before == StackAt(scoreCall.previousBoard, scoreCall.position)
            after == StackAt(scoreResult.board, scoreCall.position)
            own == {i \in 1 .. Len(after) :
                       /\ after[i].playerId = scoreCall.player.id
                       /\ after[i].color = ActiveColor}
        IN /\ Len(tall) = (IF Len(before) >= 3 THEN 1 ELSE 0)
           /\ Len(tall) = 1 => tall[1].points = Cardinality(own)

\* A fourth piece lands on a stack shared with another player: the event
\* counts the acting player's three pieces of that stack, not all four,
\* while the acting player also tops another cell.
C11_Witness ==
    /\ scoreResult # NoCall
    /\ scoreCall.viaReducer
    /\ Len(StackAt(scoreResult.board, scoreCall.position)) = 4
    /\ \E i \in 1 .. Len(scoreResult.events) :
          /\ scoreResult.events[i].reason = "tall_stack"
          /\ scoreResult.events[i].points = 3
    /\ \E p \in AllPositions :
          /\ p # scoreCall.position
          /\ StackAt(scoreResult.board, p) # <<>>
          /\ Last(StackAt(scoreResult.board, p)).playerId = scoreCall.player.id
          /\ Last(StackAt(scoreResult.board, p)).color = ActiveColor
\* ---- C12 --------------------------------------------------------------
Centre == <<2, 2>>

CentreRow == CHOOSE line \in ClaimLines : line.label = <<"row", "C">>

CentreColumn == CHOOSE line \in ClaimLines : line.label = <<"column", "3">>

\* Row 2 and column 2 are full but for the centre, which is empty and is
\* where the piece goes, and none of their other cells is topped by the
\* acting player's active colour.
CrossOpenAtCentre ==
    /\ scoreResult # NoCall
    /\ scoreCall.position = Centre
    /\ StackAt(scoreCall.previousBoard, Centre) = <<>>
    /\ \A p \in (CentreRow.cells \cup CentreColumn.cells) \ {Centre} :
          LET stack == StackAt(scoreCall.previousBoard, p) IN
          /\ stack # <<>>
          /\ ~(Last(stack).playerId = scoreCall.player.id /\ Last(stack).color = ActiveColor)

NamesRowAndColumn(event) ==
    {event.details[k] : k \in 1 .. Len(event.details)}
        = {<<"row", "C">>, <<"column", "3">>}

PlacedColor(g, playerId, color) ==
    IF color # NoColor THEN color ELSE FindPlayer(g.players, playerId).color

CompletesNoLine(before, after) ==
    \A line \in ClaimLines : IsFull(after, line) => IsFull(before, line)

OnNoFullLine(board, position) ==
    \A line \in ClaimLines : position \in line.cells => ~IsFull(board, line)

\* The events calculateScore returns for the placement that led from
\* snapshot g to snapshot after.
PlacementEvents(g, after, position, playerId, color) ==
    calculateScore(after.board, position, FindPlayer(g.players, playerId), g.board,
                   PlacedColor(g, playerId, color))

ScoreOf(g, playerId) == FindPlayer(g.players, playerId).score

\* C13 (as claimed): a placement that completes no line and lands on a
\* cell that held fewer than 3 pieces yields no score event and leaves the
\* placing player's score unchanged.
C13_PlainPlacementScoresNothing ==
    game # NoGame =>
        \A in \in PlaceInputs(game) :
            LET after == gameReducer(game, Place(in[1], in[2], in[3])) IN
            (/\ after # game
             /\ CompletesNoLine(game.board, after.board)
             /\ Len(StackAt(game.board, in[1])) < 3)
                => /\ PlacementEvents(game, after, in[1], in[2], in[3]) = <<>>
                   /\ ScoreOf(after, in[2]) = ScoreOf(game, in[2])

\* C13 (amended): a placement that completes no line, lands on a cell that
\* held fewer than 3 pieces and lies on no line that was already complete
\* yields no score event; the placing player's score is then unchanged
\* unless the placement plays the last piece of the round.
C13_PlainPlacementOffFullLines ==
    game # NoGame =>
        \A in \in PlaceInputs(game) :
            LET after == gameReducer(game, Place(in[1], in[2], in[3])) IN
            (/\ after # game
             /\ CompletesNoLine(game.board, after.board)
             /\ Len(StackAt(game.board, in[1])) < 3
             /\ OnNoFullLine(game.board, in[1]))
                => /\ PlacementEvents(game, after, in[1], in[2], in[3]) = <<>>
                   /\ (\E i \in PlayerIndexes(after) :
                          after.players[i].piecesRemaining > 0)
                         => ScoreOf(after, in[2]) = ScoreOf(game, in[2])

\* A piece has just been placed next to a row that lacks one cell, and
\* nothing was scored: the log ends with the placement entry and the
\* player's score is what the score entries before it add up to.
C13_Witness ==
    /\ game # NoGame
    /\ game.status = "playing"
    /\ Last(game.log).type = "placement"
    /\ Len(StackAt(game.board, Last(game.log).position)) \in 1 .. 3
    /\ OnNoFullLine(game.board, Last(game.log).position)
    /\ \E line \in ClaimLines :
          Cardinality({p \in line.cells : StackAt(game.board, p) # <<>>}) = 4
\* ---- C14 --------------------------------------------------------------
ReachedVictory(g) == {i \in PlayerIndexes(g) : g.players[i].score >= g.victoryPoints}

\* C14: endRound returns status gameEnd iff its input has status roundEnd
\* and some player is at or above victoryPoints, and status roundEnd in
\* every other case; players (scores included), board and roundNumber
\* are returned as given.
C14_EndRound ==
    game # NoGame =>
        LET after == endRound(game, Epoch) IN
        /\ after.status =
              IF game.status = "roundEnd" /\ ReachedVictory(game) # {}
              THEN "gameEnd" ELSE "roundEnd"
        /\ after.players = game.players
        /\ after.board = game.board
        /\ after.roundNumber = game.roundNumber
        /\ after.victoryPoints = game.victoryPoints

\* END_ROUND was dispatched while a game was being played in which a
\* player had already reached victoryPoints: the result is roundEnd, not
\* gameEnd.
C14_Witness ==
    /\ game # NoGame
    /\ game.status = "roundEnd"
    /\ Last(game.log).type = "round_end"
    /\ ReachedVictory(game) # {}
    /\ ~game.toppleOccurred
    /\ \E i \in PlayerIndexes(game) : game.players[i].piecesRemaining > 0
\* ---- C15 --------------------------------------------------------------
\* C15: determineWinner returns null unless status is gameEnd and some
\* player is at or above victoryPoints; otherwise it returns the player
\* with the highest score among those at or above victoryPoints, the
\* earliest in the list among equals.
C15_DetermineWinner ==
    winner # NoCall =>
        IF game.status # "gameEnd" \/ ReachedVictory(game) = {}
        THEN winner.player = Undefined
        ELSE \E i \in ReachedVictory(game) :
                /\ winner.player = game.players[i]
                /\ \A j \in ReachedVictory(game) :
                      /\ game.players[j].score <= game.players[i].score
                      /\ j < i => game.players[j].score < game.players[i].score

\* Two players tie for the highest score above victoryPoints and the one
\* listed first, who is not the first player of the list, is returned.
C15_Witness ==
    /\ winner # NoCall
    /\ winner.player # Undefined
    /\ winner.player = game.players[2]
    /\ game.players[3].score = game.players[2].score
    /\ game.players[1].score >= game.victoryPoints
\* ---- C16 --------------------------------------------------------------
Abs(x) == IF x < 0 THEN -x ELSE x

InBounds(position) == position[1] \in 0 .. 4 /\ position[2] \in 0 .. 4

\* The level of a cell: 1 at the centre, one more per step away from it.
LevelOf(position) == 1 + Abs(position[1] - 2) + Abs(position[2] - 2)

LegalFor(position, die) ==
    /\ InBounds(position)
    /\ die \in 1 .. 6
    /\ die = 1 => position = <<2, 2>>
    /\ die \in 2 .. 5 => LevelOf(position) = die

SelectedColor(p, color) == IF color # NoColor THEN color ELSE p.color

NoPieceLeft(p, color) ==
    IF p.color2 # NoColor
    THEN \/ SelectedColor(p, color) \notin DOMAIN p.piecesRemainingByColor
         \/ p.piecesRemainingByColor[SelectedColor(p, color)] = 0
    ELSE p.piecesRemaining = 0

PlaceViolation(g, position, playerId, color) ==
    \/ g.status # "playing"
    \/ g.diceRoll = 0
    \/ \A i \in PlayerIndexes(g) : g.players[i].id # playerId
    \/ \E i \in PlayerIndexes(g) :
          /\ g.players[i].id = playerId
          /\ ~g.players[i].isActive \/ NoPieceLeft(g.players[i], color)
    \/ ~LegalFor(position, g.diceRoll)

\* C16: PLACE_PIECE returns the snapshot unchanged whenever status is not
\* playing, no dice value is set, the named player does not exist or is not
\* active, the player has no piece remaining (of the selected colour in
\* dual-colour mode), or the position is out of bounds or not legal for the
\* die value.
C16_PlacePieceNoOp ==
    game # NoGame =>
        \A in \in PlaceInputs(game) :
            PlaceViolation(game, in[1], in[2], in[3]) =>
                gameReducer(game, Place(in[1], in[2], in[3])) = game

\* The active player of a dual-colour game, with the dice rolled and a piece
\* left, names an own colour that is used up and a legal cell: nothing
\* changes; neither does a placement outside the board.
C16_Witness ==
    /\ game # NoGame
    /\ game.status = "playing"
    /\ game.diceRoll # 0
    /\ \E i \in PlayerIndexes(game), c \in PlayerColor, pos \in PositionChoices :
          LET p == game.players[i] IN
          /\ p.isActive
          /\ p.color2 # NoColor
          /\ c \in {p.color, p.color2}
          /\ p.piecesRemaining > 0
          /\ p.piecesRemainingByColor[c] = 0
          /\ LegalFor(pos, game.diceRoll)
          /\ gameReducer(game, Place(pos, p.id, c)) = game
          /\ gameReducer(game, Place(<<0, 5>>, p.id, NoColor)) = game
\* ---- C17 --------------------------------------------------------------
OwnColors(p) == {p.color, p.color2} \ {NoColor}

ForeignPieces(g) ==
    {piece \in UNION {{StackAt(g.board, pos)[n] : n \in 1 .. Len(StackAt(g.board, pos))} :
                         pos \in AllPositions} :
        \E i \in PlayerIndexes(g) :
            /\ g.players[i].id = piece.playerId
            /\ piece.color \notin OwnColors(g.players[i])}

\* C17: a PLACE_PIECE whose colour is not one of the acting player's own
\* colours is a no-op in single-colour and in dual-colour mode, and no piece
\* on the board has a colour that does not belong to its owner.
C17_ForeignColorRejected ==
    game # NoGame =>
        /\ ForeignPieces(game) = {}
        /\ \A in \in PlaceInputs(game) :
              \A i \in PlayerIndexes(game) :
                  (/\ game.players[i].id = in[2]
                   /\ in[3] # NoColor
                   /\ in[3] \notin OwnColors(game.players[i]))
                  => gameReducer(game, Place(in[1], in[2], in[3])) = game
\* ---- C18 --------------------------------------------------------------
Topple(playerId) == [type |-> "TOGGLE_TOPPLE", playerId |-> playerId]

StartNewRound == [type |-> "START_NEW_ROUND"]

\* One action of every type but SETUP_GAME and LOAD_GAME.
ActionsNeedingGame ==
    {[type |-> "INITIAL_DICE_ROLL",
      rolls |-> << [playerId |-> "player-1", roll |-> 6],
                   [playerId |-> "player-2", roll |-> 2] >>,
      playerOrder |-> <<"player-2", "player-1">>],
     [type |-> "RESET_GAME"], [type |-> "COMPLETE_TURN"], [type |-> "END_ROUND"],
     StartNewRound, [type |-> "SET_ERROR"]}
        \cup {Roll(d) : d \in DiceValues}
        \cup {Topple(id) : id \in {"player-1", "player-9"}}
        \cup {Place(pos, "player-1", color) : pos \in PositionChoices, color \in ColorChoices}

\* C18: ROLL_DICE and TOGGLE_TOPPLE return the snapshot unchanged when
\* status is not playing, TOGGLE_TOPPLE also when the named player does not
\* exist, START_NEW_ROUND when status is not roundEnd, and with no game
\* every action other than SETUP_GAME and LOAD_GAME returns no game.
C18_GuardedNoOps ==
    IF game = NoGame
    THEN \A action \in ActionsNeedingGame : gameReducer(game, action) = NoGame
    ELSE /\ game.status # "playing" =>
               /\ \A d \in DiceValues : gameReducer(game, Roll(d)) = game
               /\ \A id \in IdChoices(game) : gameReducer(game, Topple(id)) = game
         /\ \A id \in IdChoices(game) :
               (\A i \in PlayerIndexes(game) : game.players[i].id # id)
                   => gameReducer(game, Topple(id)) = game
         /\ game.status # "roundEnd" => gameReducer(game, StartNewRound) = game

\* A finished game, ended by a topple: rolling, toppling again and starting
\* a new round all leave it as it is.
C18_Witness ==
    /\ game # NoGame
    /\ game.status = "gameEnd"
    /\ game.toppleOccurred
    /\ gameReducer(game, Roll(6)) = game
    /\ gameReducer(game, Topple(game.players[1].id)) = game
    /\ gameReducer(game, StartNewRound) = game
\* ---- C19 --------------------------------------------------------------
\* C19: INITIAL_DICE_ROLL changes the snapshot only when status is playing
\* and roundNumber is 1; in any other status or round the snapshot comes
\* back unchanged: same player order, active flags and turn pointer.
C19_InitialRollOnlyAtStart ==
    (game # NoGame /\ (game.status # "playing" \/ game.roundNumber # 1)) =>
        \A rolls \in RollChoices(game), playerOrder \in OrderChoices(game) :
            gameReducer(game, [type |-> "INITIAL_DICE_ROLL", rolls |-> rolls,
                               playerOrder |-> playerOrder]) = game
\* ---- C20 --------------------------------------------------------------
\* Positions on the board and one step outside it on every side.
NearPositions == (-1 .. 5) \X (-1 .. 5)

\* C20: getValidCells is exactly {(2,2)} for die 1, exactly the cells whose
\* level equals the die for dice 2 to 5 and all 25 cells for die 6,
\* whatever the stacks hold; canPlacePiece is true iff the position is
\* inside the 5x5 bounds and in that set; every die value admits a cell.
C20_ValidCells ==
    game # NoGame =>
        /\ \A p \in AllPositions : game.board.cells[p[1]][p[2]].level = LevelOf(p)
        /\ getValidCells(1, game.board) = {<<2, 2>>}
        /\ \A d \in 2 .. 5 :
              getValidCells(d, game.board) = {p \in AllPositions : LevelOf(p) = d}
        /\ getValidCells(6, game.board) = AllPositions
        /\ Cardinality(getValidCells(6, game.board)) = 25
        /\ \A d \in DiceValues :
              /\ getValidCells(d, game.board) = getValidCells(d, createEmptyBoard)
              /\ getValidCells(d, game.board) # {}
              /\ \A p \in NearPositions :
                    canPlacePiece(p, d, game.board)
                        <=> (InBounds(p) /\ p \in getValidCells(d, game.board))

\* A level die is rolled on a board that carries stacks, and a cell of that
\* level which already holds pieces is among the admitted ones.
C20_Witness ==
    /\ game # NoGame
    /\ game.diceRoll \in 2 .. 5
    /\ \E p \in AllPositions :
          /\ Len(StackAt(game.board, p)) >= 2
          /\ p \in getValidCells(game.diceRoll, game.board)
          /\ canPlacePiece(p, game.diceRoll, game.board)
    /\ \E p \in AllPositions :
          /\ StackAt(game.board, p) = <<>>
          /\ ~canPlacePiece(p, game.diceRoll, game.board)
\* ---- C21 --------------------------------------------------------------
AllPiecesPlayed(g) == \A i \in PlayerIndexes(g) : g.players[i].piecesRemaining = 0

EventPoints(events) == SumSeq([n \in 1 .. Len(events) |-> events[n].points])

\* The log entries the step from snapshot g to snapshot after appended.
NewEntries(g, after) == SubSeq(after.log, Len(g.log) + 1, Len(after.log))

PenaltyEntries(g, after, playerId) ==
    {n \in 1 .. Len(NewEntries(g, after)) :
        /\ NewEntries(g, after)[n].type = "score"
        /\ NewEntries(g, after)[n].points = -3
        /\ NewEntries(g, after)[n].playerId = playerId}

\* C21: the successful PLACE_PIECE after which every player has
\* piecesRemaining 0 subtracts exactly 3 from the placing player's score on
\* top of the placement's score events, appends a -3 log entry for that
\* player and leaves a status other than playing; no other placement
\* applies the penalty.
C21_ExhaustionPenalty ==
    game # NoGame =>
        \A in \in PlaceInputs(game) :
            LET after == gameReducer(game, Place(in[1], in[2], in[3]))
                gained == EventPoints(PlacementEvents(game, after, in[1], in[2], in[3]))
            IN after # game =>
                 IF AllPiecesPlayed(after)
                 THEN /\ ScoreOf(after, in[2]) = ScoreOf(game, in[2]) + gained - 3
                      /\ Cardinality(PenaltyEntries(game, after, in[2])) = 1
                      /\ after.status # "playing"
                 ELSE /\ ScoreOf(after, in[2]) = ScoreOf(game, in[2]) + gained
                      /\ \A i \in PlayerIndexes(game) :
                            PenaltyEntries(game, after, game.players[i].id) = {}
\* ---- C22 --------------------------------------------------------------
FreshRound(before, after) ==
    /\ \A p \in AllPositions :
          /\ StackAt(after.board, p) = <<>>
          /\ after.board.cells[p[1]][p[2]].level = LevelOf(p)
    /\ \A i \in PlayerIndexes(after) :
          LET p == after.players[i] IN
          /\ p.piecesRemaining = 12
          /\ p.color2 # NoColor =>
                \A c \in OwnColors(p) : p.piecesRemainingByColor[c] = 12
          /\ p.isActive <=> i = 1
    /\ Len(after.players) = Len(before.players)
    /\ ~after.toppleOccurred
    /\ after.topplePlayerId = ""
    /\ after.diceRoll = 0
    /\ ~after.diceRolledInRound
    /\ after.roundNumber = before.roundNumber + 1
    /\ after.currentPlayerIndex = 0
    /\ after.status = "playing"

\* C22: START_NEW_ROUND from roundEnd yields 25 empty stacks on the fixed
\* level template, piecesRemaining 12 for every player (12 for each of the
\* two colours in dual-colour mode), toppleOccurred false, topplePlayerId
\* and diceRoll unset, diceRolledInRound false, roundNumber one higher,
\* currentPlayerIndex 0 with only player 0 active, and status playing.
C22_StartNewRound ==
    (game # NoGame /\ game.status = "roundEnd") =>
        FreshRound(game, gameReducer(game, StartNewRound))

\* A round of a dual-colour game that saw placements has ended with a
\* piece on the board, and the round started from it is fresh.
C22_Witness ==
    /\ game # NoGame
    /\ game.status = "roundEnd"
    /\ \E p \in AllPositions : StackAt(game.board, p) # <<>>
    /\ game.players[1].color2 # NoColor
    /\ game.diceRolledInRound
    /\ gameReducer(game, StartNewRound) # game
    /\ FreshRound(game, gameReducer(game, StartNewRound))
\* ---- C23 --------------------------------------------------------------
\* What the topple button dispatches: TOGGLE_TOPPLE naming
\* players[currentPlayerIndex].
ToppleButton(g) == Topple(g.players[g.currentPlayerIndex + 1].id)

PlacementsInRound(g) ==
    {n \in 1 .. Len(g.log) :
        g.log[n].type = "placement" /\ g.log[n].roundNumber = g.roundNumber}

LastPlacement(g) ==
    CHOOSE n \in PlacementsInRound(g) : \A m \in PlacementsInRound(g) : m <= n

IndexOfPlayer(g, playerId) == CHOOSE i \in PlayerIndexes(g) : g.players[i].id = playerId

\* C23: when the topple button is pressed after at least one placement in
\* the round, the last player to have placed a piece loses 10 points and
\* the player before them in turn order gains 3 points.
C23_ToppleButtonHitsLastPlacer ==
    (/\ game # NoGame
     /\ game.status = "playing"
     /\ game.currentPlayerIndex < Len(game.players)
     /\ PlacementsInRound(game) # {}) =>
        LET n == Len(game.players)
            placer == IndexOfPlayer(game, game.log[LastPlacement(game)].playerId)
            before == ((placer + n - 2) % n) + 1
            after == gameReducer(game, ToppleButton(game))
        IN /\ after.players[placer].score = game.players[placer].score - 10
           /\ after.players[before].score = game.players[before].score + 3
\* ---- C24 --------------------------------------------------------------
\* The colours a form assigns, one entry per assignment: second colours
\* count in 2-player mode only.
ColorSlots(config) ==
    {<<i, 1>> : i \in 1 .. Len(config.players)}
        \cup {<<i, 2>> : i \in {j \in 1 .. Len(config.players) :
                                    /\ config.playerCount = 2
                                    /\ config.players[j].color2 # NoColor}}

SlotColor(config, slot) ==
    IF slot[2] = 1 THEN config.players[slot[1]].color ELSE config.players[slot[1]].color2

Flawed(config) ==
    \/ config.playerCount \notin 2 .. 4
    \/ Len(config.players) # config.playerCount
    \/ ~(\E n \in 1 .. 100 : n * config.victoryPoints.den = config.victoryPoints.num)
    \/ \E i \in 1 .. Len(config.players) :
          LET player == config.players[i] IN
          \/ \A k \in 1 .. Len(player.name) : player.name[k] = " "
          \/ player.order \notin 0 .. 3
          \/ \E j \in 1 .. Len(config.players) :
                j # i /\ config.players[j].order = player.order
    \/ \E slot \in ColorSlots(config) :
          \/ SlotColor(config, slot) \notin {"pink", "yellow", "orange", "purple"}
          \/ \E other \in ColorSlots(config) :
                other # slot /\ SlotColor(config, other) = SlotColor(config, slot)

\* C24: validateGameConfig returns valid = true iff its error list is
\* empty, and reports an error whenever playerCount is outside 2..4, the
\* players list length differs from playerCount, victoryPoints is not a
\* positive integer, a name is blank, a colour is unknown, a colour (second
\* colours included in 2-player mode) is used twice, or a turn order is
\* outside 0..3 or repeated.
C24_ValidateGameConfig ==
    validation.status = "returned" =>
        /\ validation.result.valid <=> validation.result.errors = <<>>
        /\ Flawed(validation.config) => validation.result.errors # <<>>

\* A 2-player form whose only flaw is that the second player's second
\* colour repeats the first player's second colour: one error, not valid.
C24_Witness ==
    /\ validation.status = "returned"
    /\ validation.config.playerCount = 2
    /\ Len(validation.config.players) = 2
    /\ validation.config.players[1].color2 = "orange"
    /\ validation.config.players[2].color2 = "orange"
    /\ validation.config.players[1].color # validation.config.players[2].color
    /\ Len(validation.result.errors) = 1
    /\ validation.result.errors[1] = [kind |-> "color_used", player |-> 2]
    /\ ~validation.result.valid
\* The score entries a placement caused: the run of score entries of the
\* placing player that follows the placement entry at index i.
RECURSIVE CausedFrom(_, _, _)
CausedFrom(log, playerId, j) ==
    IF j > Len(log) \/ log[j].type # "score" \/ log[j].playerId # playerId THEN {}
    ELSE {j} \cup CausedFrom(log, playerId, j + 1)

CausedBy(log, i) == CausedFrom(log, log[i].playerId, i + 1)

NonDecreasing(log) ==
    \A i, j \in 1 .. Len(log) : i < j => log[i].timestamp <= log[j].timestamp

PlacementFirst(log) ==
    \A i \in 1 .. Len(log) :
        log[i].type = "placement" =>
            \A j \in CausedBy(log, i) : log[i].timestamp < log[j].timestamp

\* C25: with a clock that never goes back, the timestamps of the log never
\* decrease in append order, and every placement entry is stamped strictly
\* before the score entries it caused.
C25_LogTimestampsMonotonic ==
    game # NoGame => NonDecreasing(game.log) /\ PlacementFirst(game.log)

\* A record without the named fields
Without(record, fields) == [f \in DOMAIN record \ fields |-> record[f]]

StripPiece(piece) == Without(piece, {"id", "placedAt"})

StripCell(cell) ==
    [cell EXCEPT !.stack = [k \in 1 .. Len(cell.stack) |-> StripPiece(cell.stack[k])]]

StripBoard(board) ==
    [board EXCEPT !.cells =
        [row \in Idx |-> [col \in Idx |-> StripCell(board.cells[row][col])]]]

StripEntry(entry) == Without(entry, {"id", "timestamp"})

\* The snapshot without its ids and timestamps
Strip(g) ==
    IF g = NoGame THEN NoGame
    ELSE LET bare == Without(g, {"id", "createdAt", "updatedAt"}) IN
         [bare EXCEPT !.board = StripBoard(g.board),
                      !.log = [k \in 1 .. Len(g.log) |-> StripEntry(g.log[k])]]

\* C26: two runs of the same actions (same setup, same die values), made at
\* different times and drawing different identifiers, end in snapshots that
\* are equal in every field other than ids and timestamps.
C26_RunsAgree == Strip(game) = Strip(twin)

\* Both runs placed a piece and their snapshots differ (in ids and times).
C26_Witness ==
    /\ game # NoGame
    /\ game # twin
    /\ game.id # twin.id
    /\ Last(game.log).timestamp # Last(twin.log).timestamp
    /\ \E k \in 1 .. Len(game.log) :
          game.log[k].type = "placement" /\ game.log[k].id # twin.log[k].id
    /\ Strip(game) = Strip(twin)

\* ---- C27 --------------------------------------------------------------
\* Every action other than SETUP_GAME, LOAD_GAME and RESET_GAME that can be
\* dispatched on snapshot g
PlayActions(g) ==
    {[type |-> "INITIAL_DICE_ROLL", rolls |-> rolls, playerOrder |-> playerOrder] :
        rolls \in RollChoices(g), playerOrder \in OrderChoices(g)}
        \cup {Roll(d) : d \in DiceValues}
        \cup {Place(position, playerId, color) :
                 position \in PositionChoices, playerId \in IdChoices(g),
                 color \in ColorChoices}
        \cup {Topple(playerId) : playerId \in IdChoices(g)}
        \cup {[type |-> "COMPLETE_TURN"], [type |-> "END_ROUND"], StartNewRound}

\* The score of every player, by player id
ScoreById(g) == {<<g.players[i].id, g.players[i].score>> : i \in PlayerIndexes(g)}

SameOutcome(before, after) ==
    /\ after # NoGame
    /\ after.status = before.status
    /\ ScoreById(after) = ScoreById(before)
    /\ after.board = before.board
    /\ after.roundNumber = before.roundNumber

\* C27: once status is gameEnd, no action other than SETUP_GAME, LOAD_GAME
\* and RESET_GAME changes status, scores, board or roundNumber; END_ROUND
\* and START_NEW_ROUND leave a finished game finished.
C27_GameEndIsFinal ==
    (game # NoGame /\ game.status = "gameEnd") =>
        \A action \in PlayActions(game) : SameOutcome(game, gameReducer(game, action))

\* ---- C28 --------------------------------------------------------------
\* C28: in every reachable snapshot with status roundEnd no player's score
\* is at or above victoryPoints (a round that ends with a player at the
\* threshold ends the game).
C28_NoVictorAtRoundEnd ==
    (game # NoGame /\ game.status = "roundEnd") => ReachedVictory(game) = {}

\* ---- C29 --------------------------------------------------------------
\* C29: at most one player is active, and a player that is active while
\* status is playing is players[currentPlayerIndex].
C29_ActiveIsCurrent ==
    game # NoGame =>
        /\ Cardinality(ActivePlayers(game)) <= 1
        /\ game.status = "playing" =>
               \A i \in ActivePlayers(game) : i = game.currentPlayerIndex + 1

\* The first half alone: at most one player is active.
C29_AtMostOneActive == game # NoGame => Cardinality(ActivePlayers(game)) <= 1

\* ---- C30 --------------------------------------------------------------
InitialRoll(rolls) ==
    [type |-> "INITIAL_DICE_ROLL", rolls |-> rolls, playerOrder |-> Undefined]

\* The players whose roll no other roll exceeds
Leaders(rolls) ==
    {rolls[i].playerId : i \in {k \in 1 .. Len(rolls) :
                                  \A j \in 1 .. Len(rolls) : rolls[j].roll <= rolls[k].roll}}

OrderOf(g, id) == (CHOOSE p \in {g.players[i] : i \in PlayerIndexes(g)} : p.id = id).order

\* The player seated next after the one named id: the one with the next
\* higher setup order, or the one with the lowest after the last seat.
SeatedAfter(g, id) ==
    LET ids == {g.players[i].id : i \in PlayerIndexes(g)}
        higher == {other \in ids : OrderOf(g, other) > OrderOf(g, id)}
        from == IF higher = {} THEN ids ELSE higher
    IN CHOOSE next \in from : \A other \in from : OrderOf(g, next) <= OrderOf(g, other)

\* after is g with the players rotated along the seating so that leader
\* comes first, renumbered, and leader the only active player.
RotatedTo(g, after, leader) ==
    LET n == Len(g.players) IN
    /\ Len(after.players) = n
    /\ after.players[1].id = leader
    /\ \A i \in 1 .. n :
          /\ after.players[(i % n) + 1].id = SeatedAfter(g, after.players[i].id)
          /\ after.players[i].order = i - 1
          /\ after.players[i].isActive <=> (i = 1)
    /\ after.currentPlayerIndex = 0

UniqueLeaderRotates(g) ==
    \A rolls \in RollChoices(g) \ {<<>>} :
        Cardinality(Leaders(rolls)) = 1 =>
            RotatedTo(g, gameReducer(g, InitialRoll(rolls)),
                      CHOOSE id \in Leaders(rolls) : TRUE)

\* C30 as stated: a unique highest roll without an order override rotates
\* the seating to the winner, renumbers order to 0..n-1 and makes the winner
\* the only active player with currentPlayerIndex 0; a tie without an
\* override returns the snapshot unchanged with no player active.
C30_AsStated ==
    game # NoGame =>
        /\ UniqueLeaderRotates(game)
        /\ \A rolls \in RollChoices(game) \ {<<>>} :
              Cardinality(Leaders(rolls)) > 1 =>
                  LET after == gameReducer(game, InitialRoll(rolls)) IN
                  after = game /\ ActivePlayers(after) = {}

\* C30: a unique highest roll without an order override rotates the seating
\* to the winner, renumbers order to 0..n-1 and makes the winner the only
\* active player with currentPlayerIndex 0; a tie without an override
\* returns the snapshot unchanged, so that no player becomes active and a
\* player who was active stays active.
C30_InitialDiceRoll ==
    game # NoGame =>
        /\ UniqueLeaderRotates(game)
        /\ \A rolls \in RollChoices(game) \ {<<>>} :
              Cardinality(Leaders(rolls)) > 1 =>
                  gameReducer(game, InitialRoll(rolls)) = game

\* A unique highest roll was dispatched on a game whose players were not
\* listed in seating order, and both a further unique roll and a tie can
\* be dispatched on the result.
C30_Witness ==
    /\ game # NoGame
    /\ steps = 1
    /\ ActivePlayers(game) = {1}
    /\ game.players[1].id = "player-3"
    /\ game.players[2].id = "player-2"
    /\ game.players[3].id = "player-1"
    /\ \E rolls \in RollChoices(game) :
          /\ Cardinality(Leaders(rolls)) = 1
          /\ gameReducer(game, InitialRoll(rolls)) # game
          /\ RotatedTo(game, gameReducer(game, InitialRoll(rolls)), "player-1")
    /\ \E rolls \in RollChoices(game) :
          /\ Cardinality(Leaders(rolls)) > 1
          /\ gameReducer(game, InitialRoll(rolls)) = game

\* ---- C31 --------------------------------------------------------------
\* What the ledger of colour c lost between player p and player q
LedgerLoss(p, q, c) == p.scoreByColor[c] - q.scoreByColor[c]

\* C31: in dual-colour mode TOGGLE_TOPPLE lowers the causing player's
\* score by exactly 10, and the deductions from the two colour ledgers sum
\* to 10.
C31_DualTopplePenalty ==
    (game # NoGame /\ game.status = "playing" /\ DualColorMode(game)) =>
        \A c \in PlayerIndexes(game) :
            LET p == game.players[c]
                after == gameReducer(game, Topple(p.id))
                q == after.players[c]
            IN /\ q.score = p.score - 10
               /\ LedgerLoss(p, q, p.color) + LedgerLoss(p, q, p.color2) = 10

\* ---- C32 --------------------------------------------------------------
TotalScore(g) == SumSeq([i \in PlayerIndexes(g) |-> g.players[i].score])

\* The placement that takes g to after played the last piece of the round.
Exhausts(g, after) == after # g /\ ~AllPiecesPlayed(g) /\ AllPiecesPlayed(after)

\* C32: when a placement exhausts the pieces, the resulting scores hold the
\* placement's points and the -3 penalty, and status is gameEnd iff some
\* resulting score is at or above victoryPoints, roundEnd otherwise.
C32_ExhaustionDecidesOnFinalScores ==
    (game # NoGame /\ game.status = "playing" /\ game.diceRolledInRound
        /\ ~game.toppleOccurred) =>
        \A in \in PlaceInputs(game) :
            LET after == gameReducer(game, Place(in[1], in[2], in[3])) IN
            Exhausts(game, after) =>
                /\ \E k \in 1 .. Len(NewEntries(game, after)) :
                      /\ NewEntries(game, after)[k].type = "score"
                      /\ NewEntries(game, after)[k].points = -3
                /\ TotalScore(after) =
                      TotalScore(game) + EventPoints(
                          SelectSeq(NewEntries(game, after), LAMBDA e : e.type = "score"))
                /\ after.status =
                      IF ReachedVictory(after) # {} THEN "gameEnd" ELSE "roundEnd"

\* The die is rolled and the last piece can be placed for points that take
\* the placer to victoryPoints before the penalty and below it after:
\* the round ends without ending the game.
C32_Witness ==
    /\ game # NoGame
    /\ game.status = "playing"
    /\ game.diceRoll # 0
    /\ \E in \in PlaceInputs(game) :
          LET after == gameReducer(game, Place(in[1], in[2], in[3])) IN
          /\ Exhausts(game, after)
          /\ after.status = "roundEnd"
          /\ ScoreOf(after, in[2]) < after.victoryPoints
          /\ ScoreOf(after, in[2]) + 3 >= after.victoryPoints
          /\ ScoreOf(game, in[2]) < game.victoryPoints

\* ---- C33 --------------------------------------------------------------
CurrentHasPiece(g) == g.players[g.currentPlayerIndex + 1].piecesRemaining > 0

\* The pieces dealt to the players of g for one round
PiecesDealt(g) ==
    SumSeq([i \in PlayerIndexes(g) |->
               IF g.players[i].color2 = NoColor THEN TotalPieces ELSE 2 * TotalPieces])

RoundOver == game.status # "playing"

\* The move NextRound offers in the current snapshot can be made
MoveAvailable ==
    \/ game.diceRoll = 0
    \/ LET p == game.players[game.currentPlayerIndex + 1] IN
       \E position \in RoundCells, color \in RoundColors(p) :
          gameReducer(game, Place(position, p.id, color)) # game

\* C33: in a round played by alternating ROLL_DICE and legal PLACE_PIECE
\* from the opening on, the current player has a piece left, and a move to
\* make, as long as status is playing; the round eventually leaves status
\* playing, and when it has, the round holds exactly one placement per
\* piece dealt.
C33_RoundRunsOut ==
    /\ [](~RoundOver => CurrentHasPiece(game) /\ MoveAvailable)
    /\ <>RoundOver
    /\ [](RoundOver => Cardinality(PlacementsInRound(game)) = PiecesDealt(game))

\* A three-player round is over, every piece played.
C33_Witness ==
    /\ RoundOver
    /\ Len(game.players) = 3
    /\ AllPiecesPlayed(game)
    /\ Cardinality(PlacementsInRound(game)) = 3 * TotalPieces

\* ---- C34 --------------------------------------------------------------
\* C34: a PLACE_PIECE that succeeds and leaves status playing hands the
\* turn to the next player in list order: currentPlayerIndex becomes the
\* previous index plus one modulo the number of players, that player is
\* the only active one, and diceRoll is cleared.
C34_PlacementPassesTurn ==
    game # NoGame =>
        \A in \in PlaceInputs(game) :
            LET after == gameReducer(game, Place(in[1], in[2], in[3]))
                next == (game.currentPlayerIndex + 1) % Len(game.players)
            IN (after # game /\ after.status = "playing") =>
                  /\ after.currentPlayerIndex = next
                  /\ ActivePlayers(after) = {next + 1}
                  /\ after.diceRoll = 0

\* A placement by the last player of three succeeds and the turn wraps
\* round to the first.
C34_Witness ==
    /\ game # NoGame
    /\ Len(game.players) = 3
    /\ game.currentPlayerIndex = 2
    /\ \E in \in PlaceInputs(game) :
          LET after == gameReducer(game, Place(in[1], in[2], in[3])) IN
          /\ after # game
          /\ after.status = "playing"
          /\ after.currentPlayerIndex = 0

\* ---- C35 --------------------------------------------------------------
\* The rolls and placements recorded in the log of g, oldest first
PlayLog(g) == SelectSeq(g.log, LAMBDA e : e.type \in {"dice_roll", "placement"})

\* The die of g was rolled by the player with this id, in the current round
\* and after the last placement
RolledBy(g, playerId) ==
    /\ PlayLog(g) # <<>>
    /\ Last(PlayLog(g)).type = "dice_roll"
    /\ Last(PlayLog(g)).playerId = playerId
    /\ Last(PlayLog(g)).roundNumber = g.roundNumber

\* C35: a PLACE_PIECE succeeds only on a die that the placing player
\* rolled, in the current round and after the last placement.
C35_DieIsThePlacersOwn ==
    game # NoGame =>
        \A in \in PlaceInputs(game) :
            gameReducer(game, Place(in[1], in[2], in[3])) # game => RolledBy(game, in[2])

\* ---- C36 --------------------------------------------------------------
\* The scores and piece counts of the players of g, by id
Holdings(g) ==
    [i \in PlayerIndexes(g) |->
        [id |-> g.players[i].id,
         score |-> g.players[i].score,
         scoreByColor |-> g.players[i].scoreByColor,
         piecesRemaining |-> g.players[i].piecesRemaining,
         piecesRemainingByColor |-> g.players[i].piecesRemainingByColor]]

\* C36: a ROLL_DICE that succeeds sets diceRoll to a value from 1 to 6
\* and diceRolledInRound to true, leaves players[currentPlayerIndex] the
\* only active player, appends exactly one log entry, of type dice_roll,
\* and leaves the board, the scores, the piece counts, currentPlayerIndex,
\* roundNumber and status as they were.
C36_RollDiceEffect ==
    game # NoGame =>
        \A word \in RandomWords :
            LET after == gameReducer(game, Roll(rollDice(word))) IN
            after # game =>
                /\ after.diceRoll \in 1 .. 6
                /\ after.diceRolledInRound
                /\ ActivePlayers(after) = {after.currentPlayerIndex + 1}
                /\ Len(after.log) = Len(game.log) + 1
                /\ SubSeq(after.log, 1, Len(game.log)) = game.log
                /\ Last(after.log).type = "dice_roll"
                /\ after.board = game.board
                /\ Holdings(after) = Holdings(game)
                /\ after.currentPlayerIndex = game.currentPlayerIndex
                /\ after.roundNumber = game.roundNumber
                /\ after.status = game.status

\* A roll succeeds for a current player who was flagged inactive, in a
\* game with pieces on the board.
C36_Witness ==
    /\ game # NoGame
    /\ game.status = "playing"
    /\ game.board # createEmptyBoard
    /\ ~game.players[game.currentPlayerIndex + 1].isActive
    /\ \E word \in RandomWords : gameReducer(game, Roll(rollDice(word))) # game

\* ---- C37 --------------------------------------------------------------
\* The points calculateScore awards for the placement that led from g to
\* after
PlacementPoints(g, after, position, playerId, color) ==
    EventPoints(calculateScore(after.board, position, FindPlayer(g.players, playerId),
                               g.board, color))

\* C37: when a two-colour player places a piece with colour c and the
\* placement succeeds, the piece on top of the cell has colour c, the
\* player's piecesRemainingByColor[c] is one lower and scoreByColor[c] is
\* higher by the points of the placement; the counts and ledgers of the
\* player's other colour and of every other player are as before.
C37_DualPlacementUsesChosenColor ==
    game # NoGame =>
        \A in \in PlaceInputs(game) :
            LET after == gameReducer(game, Place(in[1], in[2], in[3]))
                p == FindPlayer(game.players, in[2])
                q == FindPlayer(after.players, in[2])
            IN (after # game /\ in[3] # NoColor /\ p.color2 # NoColor) =>
                  /\ Last(StackAt(after.board, in[1])).color = in[3]
                  /\ q.piecesRemainingByColor =
                        [p.piecesRemainingByColor EXCEPT ![in[3]] = @ - 1]
                  /\ q.scoreByColor =
                        [p.scoreByColor EXCEPT
                            ![in[3]] = @ + PlacementPoints(game, after, in[1], in[2], in[3])]
                  /\ \A i \in PlayerIndexes(game) :
                        game.players[i].id # in[2] =>
                            LET o == FindPlayer(after.players, game.players[i].id) IN
                            /\ o.piecesRemainingByColor = game.players[i].piecesRemainingByColor
                            /\ o.scoreByColor = game.players[i].scoreByColor

\* A two-colour player places a piece of the second colour and scores
\* with it.
C37_Witness ==
    /\ game # NoGame
    /\ \E in \in PlaceInputs(game) :
          LET after == gameReducer(game, Place(in[1], in[2], in[3]))
              p == FindPlayer(game.players, in[2])
          IN /\ after # game
             /\ p.color2 # NoColor
             /\ in[3] = p.color2
             /\ PlacementPoints(game, after, in[1], in[2], in[3]) > 0
             /\ FindPlayer(after.players, in[2]).scoreByColor[in[3]] > p.scoreByColor[in[3]]

\* ---- C38 --------------------------------------------------------------
\* Board after is board before with one piece more, owned by the player
\* and stamped with the round, on top of the stack at the position
OnePieceOnTop(before, after, position, playerId, roundNumber) ==
    /\ StackAt(after, position) # <<>>
    /\ Last(StackAt(after, position)).playerId = playerId
    /\ Last(StackAt(after, position)).roundNumber = roundNumber
    /\ SubSeq(StackAt(after, position), 1, Len(StackAt(after, position)) - 1)
          = StackAt(before, position)
    /\ \A pos \in AllPositions :
          /\ after.cells[pos[1]][pos[2]].level = before.cells[pos[1]][pos[2]].level
          /\ pos # position => StackAt(after, pos) = StackAt(before, pos)
    /\ after.levelLayout = before.levelLayout

\* C38: as long as the round number stays the same, an action other than
\* SETUP_GAME, LOAD_GAME and RESET_GAME changes the board only if it is a
\* successful PLACE_PIECE, and then the new board is the old one with one
\* piece more: on top of the stack of the target cell, owned by the acting
\* player and stamped with the current round number, every other stack and
\* every level as before.
C38_BoardGrowsByPlacement ==
    game # NoGame =>
        \A action \in PlayActions(game) :
            LET after == gameReducer(game, action) IN
            after.roundNumber = game.roundNumber =>
                IF action.type = "PLACE_PIECE" /\ after # game
                THEN OnePieceOnTop(game.board, after.board, action.position,
                                   action.playerId, game.roundNumber)
                ELSE after.board = game.board

\* A piece is placed on a cell that already holds one, while other cells
\* hold pieces too.
C38_Witness ==
    /\ game # NoGame
    /\ \E in \in PlaceInputs(game) :
          /\ in[1] \in AllPositions
          /\ StackAt(game.board, in[1]) # <<>>
          /\ \E pos \in AllPositions \ {in[1]} : StackAt(game.board, pos) # <<>>
          /\ gameReducer(game, Place(in[1], in[2], in[3])) # game

\* ---- C39 --------------------------------------------------------------
IsPrefix(short, long) ==
    /\ Len(short) <= Len(long)
    /\ SubSeq(long, 1, Len(short)) = short

\* C39: every action other than SETUP_GAME, LOAD_GAME and RESET_GAME
\* returns a snapshot whose log begins with the whole previous log.
C39_LogIsAppendOnly ==
    game # NoGame =>
        \A action \in PlayActions(game) \cup {[type |-> "SET_ERROR"]} :
            IsPrefix(game.log, gameReducer(game, action).log)

\* An action adds at least two entries to a log that already holds five
C39_Witness ==
    /\ game # NoGame
    /\ Len(game.log) >= 5
    /\ \E action \in PlayActions(game) :
          Len(gameReducer(game, action).log) >= Len(game.log) + 2

\* ---- C40 --------------------------------------------------------------
\* The most lines one placement at the position may complete: four at the
\* centre, three on the rest of the diagonals, two elsewhere
LineLimit(position) ==
    IF position = <<2, 2>> THEN 4
    ELSE IF position[1] = position[2] \/ position[1] + position[2] = 4 THEN 3
    ELSE 2

\* C40: every line calculateScore counts as newly completed by a placement
\* runs through the cell of the placement (and is full now and was not
\* before), so the row_completion event names at most four lines for the
\* centre cell, three for another cell of a diagonal and two for any other
\* cell.
C40_NewLinesRunThroughPlacement ==
    scoreResult # NoCall =>
        \A n \in 1 .. Len(EventsOf("row_completion")) :
            LET details == EventsOf("row_completion")[n].details IN
            /\ \A k \in 1 .. Len(details) :
                  \E line \in ClaimLines :
                      /\ line.label = details[k]
                      /\ scoreCall.position \in line.cells
                      /\ IsFull(scoreResult.board, line)
                      /\ ~IsFull(scoreCall.previousBoard, line)
            /\ Len(details) <= LineLimit(scoreCall.position)

\* A piece on the empty centre completes its row, its column and both
\* diagonals at once.
C40_Witness ==
    /\ scoreResult # NoCall
    /\ scoreCall.position = <<2, 2>>
    /\ Len(EventsOf("row_completion")) = 1
    /\ Len(EventsOf("row_completion")[1].details) = 4

====
